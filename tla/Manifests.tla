----------------------------- MODULE Manifests ------------------------------
(***************************************************************************)
(* Cookbook manifests: the two shapes in which they list their files, what  *)
(* is checked of one on upload, and how a stored one is shown to a client   *)
(* of another API version.                                                  *)
(*                                                                          *)
(* m.files maps the file lists the document has (some of the segments, or   *)
(* "all_files") to their entries; an entry has a name, the sequence of its  *)
(* path's parts, and a checksum.  m.deps maps the cookbooks it depends on   *)
(* to constraints.  m.wellFormed stands for the field-by-field checks whose *)
(* outcome nothing else depends on, m.agrees for the document's own name    *)
(* and version being those of the URL.                                      *)
(***************************************************************************)
EXTENDS CookbookVersions, SequencesExt

CONSTANT SegmentOrder       \* cookbookSegments, "root_files" among them

Segments == ToSet(SegmentOrder)

isCookbookSegment(s) == s \in Segments

Entries(m) == UNION {ToSet(m.files[s]) : s \in DOMAIN m.files}

\* manifestChecksums, over walkFileEntries: every checksum at any depth.
manifestChecksums(m) == {e.sum : e \in Entries(m)}

\* manifestDependencies: by name; the solver ignores the constraints.
manifestDependencies(m) == DOMAIN m.deps

\* checkManifestShape: all_files from API version 2, segments below it.
checkManifestShape(m, api) ==
    IF api >= 2 THEN \A s \in DOMAIN m.files : ~isCookbookSegment(s)
                ELSE "all_files" \notin DOMAIN m.files

\* validateCookbookManifest with validateCookbookMetadata: the lists allowed
\* for the API version, the identity the URL gives, and dependency constraints.
validateCookbookManifest(m, api) ==
    /\ checkManifestShape(m, api)
    /\ m.agrees
    /\ m.wellFormed
    /\ \A n \in DOMAIN m.deps : validCookbookConstraint(m.deps[n])

\* strings.Cut at the first "/": an entry's segment and its name inside it.
SegmentOf(e) ==
    IF Len(e.name) > 1 /\ isCookbookSegment(e.name[1]) THEN e.name[1] ELSE "root_files"

NameInSegment(e) ==
    IF Len(e.name) > 1 /\ isCookbookSegment(e.name[1]) THEN Tail(e.name) ELSE e.name

\* Mutant: a file outside every segment is dropped instead of becoming a root file.
toSegmentsDropsRoot(m) ==
    IF "all_files" \notin DOMAIN m.files THEN m
    ELSE [m EXCEPT !.files =
            [s \in Segments |->
                LET mine == SelectSeq(m.files["all_files"],
                                      LAMBDA e : Len(e.name) > 1 /\ SegmentOf(e) = s)
                IN Reverse([i \in DOMAIN mine |->
                              [mine[i] EXCEPT !.name = NameInSegment(mine[i])]])]]

\* toSegments: every segment present, each with its files most recent first.
toSegments(m) ==
    IF "all_files" \notin DOMAIN m.files THEN m
    ELSE [m EXCEPT !.files =
            [s \in Segments |->
                LET mine == SelectSeq(m.files["all_files"], LAMBDA e : SegmentOf(e) = s)
                IN Reverse([i \in DOMAIN mine |->
                              [mine[i] EXCEPT !.name = NameInSegment(mine[i])]])]]

\* toAllFiles: the segments in order, each file named after its segment.
toAllFiles(m) ==
    LET present == SelectSeq(SegmentOrder, LAMBDA s : s \in DOMAIN m.files)
        renamed(s) == [i \in DOMAIN m.files[s] |->
                         [m.files[s][i] EXCEPT !.name = <<s>> \o @]]
    IN IF present = <<>> THEN m
       ELSE [m EXCEPT !.files =
               [all \in {"all_files"} |->
                  FlattenSeq([i \in DOMAIN present |-> renamed(present[i])])]]

\* shapeManifest, as withFileURLs applies it to every manifest it sends.
shapeManifest(m, api) == IF api >= 2 THEN toAllFiles(m) ELSE toSegments(m)

-----------------------------------------------------------------------------
(* Reference: a manifest's content, whichever shape it is written in, is    *)
(* how often each segment lists each checksum.                              *)

Content(m) ==
    LET places(s, c) ==
            UNION {{<<l, i>> : i \in {i \in DOMAIN m.files[l] :
                       /\ m.files[l][i].sum = c
                       /\ s = IF l = "all_files" THEN SegmentOf(m.files[l][i]) ELSE l}}
                   : l \in DOMAIN m.files}
    IN [s \in Segments |-> [c \in manifestChecksums(m) |-> Cardinality(places(s, c))]]

=============================================================================
