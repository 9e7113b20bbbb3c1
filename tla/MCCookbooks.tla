---------------------------- MODULE MCCookbooks -----------------------------
(***************************************************************************)
(* A small instance of Cookbooks: cookbooks a and b, which depend on each   *)
(* other, in versions 9, 9.1, 10 and 10.0 (9 < 9.1 < 10 = 10.0, but as text  *)
(* "10" < "9"), an artifact, and files shared between them.                 *)
(***************************************************************************)
EXTENDS Cookbooks, TLC

\* String order of the texts of 0, 1, 9, 10 and 11.
DecimalRank == (0 :> 0) @@ (1 :> 1) @@ (10 :> 2) @@ (11 :> 3) @@ (9 :> 4)

SegmentList == <<"files", "recipes", "root_files">>

v9    == <<Seg(9)>>
v10   == <<Seg(10)>>
v9_1  == <<Seg(9), Seg(1)>>
v10_0 == <<Seg(10), Seg(0)>>
vText == <<[int |-> NotInt, text |-> 5]>>

File(name, sum) == [name |-> name, sum |-> sum]
Doc(files, deps) == [files |-> files, deps |-> deps, agrees |-> TRUE, wellFormed |-> TRUE]
NoDeps == [n \in {} |-> Anything]
On(n)  == (n :> [op |-> ">=", ver |-> v9])

\* all_files: a recipe, a file deeper down, and one outside every segment.
flat  == Doc("all_files" :> <<File(<<"recipes", "default">>, "s1"),
                              File(<<"files", "default", "conf">>, "s1"),
                              File(<<"README">>, "s2")>>, On("b"))
\* segments, one of them empty.
split == Doc(("recipes" :> <<File(<<"default">>, "s2"), File(<<"x">>, "s1")>>)
             @@ ("files" :> <<>>), On("a"))
one   == Doc("all_files" :> <<File(<<"recipes", "default">>, "s1")>>, NoDeps)
two   == Doc("all_files" :> <<File(<<"recipes", "default">>, "s2")>>, On("b"))
empty == Doc([s \in {} |-> <<>>], NoDeps)
unsent == Doc("all_files" :> <<File(<<"recipes", "default">>, "s3")>>, NoDeps)

R(op) == [op |-> op, coll |-> "cookbooks", name |-> "a", ver |-> v9, body |-> empty, api |-> 2,
          sums |-> {}, content |-> {}, env |-> "_default", num |-> [k |-> "absent", n |-> 0],
          runList |-> {}]

Art(op) == [R(op) EXCEPT !.coll = "cookbook_artifacts", !.ver = v9]

WriteRequests ==
    {[R("putCookbookVersion") EXCEPT !.body = b] : b \in {flat, one, unsent}}
    \cup {[R("putCookbookVersion") EXCEPT !.name = "b", !.body = split, !.api = 1],
          [R("putCookbookVersion") EXCEPT !.ver = vText, !.body = one],
          [R("putCookbookVersion") EXCEPT !.ver = v10_0, !.body = two],
          [R("deleteCookbookVersion") EXCEPT !.ver = Latest],
          [R("deleteCookbookVersion") EXCEPT !.name = "b", !.ver = v9, !.api = 1],
          [R("deleteCookbookVersion") EXCEPT !.name = "b", !.ver = Latest],
          [Art("putArtifactVersion") EXCEPT !.body = one],
          [Art("putArtifactVersion") EXCEPT !.body = split],
          [Art("putArtifactVersion") EXCEPT !.body = split, !.api = 1],
          Art("deleteArtifactVersion"),
          [R("putACL") EXCEPT !.name = "b"],
          Art("putACL"),
          [R("putFile") EXCEPT !.sums = {"s1"}, !.content = {"s1"}],
          [R("putFile") EXCEPT !.sums = {"s3"}, !.content = {"s1"}],
          [R("createSandbox") EXCEPT !.sums = {"s1"}],
          [R("createSandbox") EXCEPT !.sums = {"s1", "s3"}],
          [R("commitSandbox") EXCEPT !.sums = {"s1"}],
          [R("commitSandbox") EXCEPT !.sums = {"s1", "s3"}]}

ReadRequests ==
    {[R("getFile") EXCEPT !.sums = {"s1"}],
     [R("getCookbookVersion") EXCEPT !.api = 1, !.ver = Latest],
     [R("getCookbookVersion") EXCEPT !.name = "b"],
     [Art("getArtifactVersion") EXCEPT !.api = 1],
     [R("listCookbooks") EXCEPT !.num = [k |-> "int", n |-> 2]],
     [R("listCookbooks") EXCEPT !.num = [k |-> "bad", n |-> 0]],
     [R("getCookbook") EXCEPT !.num = [k |-> "huge", n |-> 0]],
     R("cookbooksLatest"), R("listArtifacts"), Art("getArtifact"),
     R("universe"), R("cookbookRecipes"),
     [R("envCookbooks") EXCEPT !.env = "pinned"],
     [R("envCookbook") EXCEPT !.env = "pinned", !.num = [k |-> "int", n |-> 0]],
     [R("envCookbook") EXCEPT !.env = "missing"],
     [R("envRecipes") EXCEPT !.env = "pinned"],
     [R("envCookbookVersions") EXCEPT !.env = "pinned", !.runList = {[kind |-> "recipe", name |-> "a"], [kind |-> "role", name |-> "c"]}],
     [R("envCookbookVersions") EXCEPT !.runList = {[kind |-> "bare", name |-> "b"]}]}

\* What two overlapping uploads of one artifact, a put against a collection, and
\* two puts of one version against each other take.
ArtifactPuts == {[Art("putArtifactVersion") EXCEPT !.body = one],
                 [Art("putArtifactVersion") EXCEPT !.body = split, !.api = 1]}
PutAndDelete == {[R("putCookbookVersion") EXCEPT !.name = "b", !.body = one],
                 R("deleteCookbookVersion"), Art("deleteArtifactVersion")}
TwoPuts      == {[R("putCookbookVersion") EXCEPT !.body = b] : b \in {one, two, empty}}

AllRequests == WriteRequests \cup ReadRequests

\* The environment pins a to the 9 series and b to at most version 10.
PinnedEnv == "pinned" :> (("a" :> [op |-> "~>", ver |-> <<Seg(9), Seg(0)>>])
                          @@ ("b" :> [op |-> "<=", ver |-> v10]))

\* An empty store with s1 and s2 uploaded, a populated one, and one in which a
\* cookbook and an artifact share their only file and a cookbook loaded from a
\* chef-repo has a version that is no number.
Seeds ==
    {[manifests |-> [k \in {} |-> one], blobs |-> {"s1", "s2"}, acls |-> {}],
     [manifests |-> (<<"cookbooks", "a", v9>> :> flat)
                    @@ (<<"cookbooks", "a", v9_1>> :> one)
                    @@ (<<"cookbooks", "a", v10>> :> two)
                    @@ (<<"cookbooks", "b", v9>> :> split)
                    @@ (<<"cookbook_artifacts", "a", v9>> :> one),
      blobs |-> {"s1", "s2"}, acls |-> {<<"cookbooks", "b">>, <<"cookbook_artifacts", "a">>}],
     [manifests |-> (<<"cookbooks", "a", v9>> :> one)
                    @@ (<<"cookbooks", "c", v9>> :> empty)
                    @@ (<<"cookbooks", "c", vText>> :> empty)
                    @@ (<<"cookbook_artifacts", "a", v9>> :> one),
      blobs |-> {"s1"}, acls |-> {}]}

\* Goroutines are interchangeable.
Symmetry == Permutations(Procs)

=============================================================================
