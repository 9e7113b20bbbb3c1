------------------------------ MODULE Backend -------------------------------
(***************************************************************************)
(* The content of the store and what each operation of a backend does to    *)
(* it.  A key is <<organization, collection, owner, name>>: the owner is    *)
(* the bag of an item, the policy of a revision, the type of an ACL, and "" *)
(* elsewhere.  The global space is the organization "", which needs no      *)
(* CreateOrg.  Every operation is one step (under the backend's mutex).     *)
(***************************************************************************)
EXTENDS Integers, Sequences

EmptyStore == [orgs |-> {}, docs |-> [k \in {} |-> ""]]

Has(db, k) == k \in DOMAIN db.docs
set(db, k, val) ==
    [db EXCEPT !.docs = [x \in DOMAIN db.docs \cup {k} |-> IF x = k THEN val ELSE db.docs[x]]]
Delete(db, K) == [db EXCEPT !.docs = [x \in DOMAIN db.docs \ K |-> db.docs[x]]]

CollKeys(db, org, coll, owner) ==
    {k \in DOMAIN db.docs : k[1] = org /\ k[2] = coll /\ k[3] = owner}

CreateOrg(db, name) == [db EXCEPT !.orgs = @ \cup {name}]
DeleteOrg(db, name) ==
    IF name \notin db.orgs THEN db
    ELSE [Delete(db, {k \in DOMAIN db.docs : k[1] = name}) EXCEPT !.orgs = @ \ {name}]

=============================================================================
