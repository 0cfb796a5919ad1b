-------------------------------- MODULE MeshXml --------------------------------
(***************************************************************************)
(* How the mesh of a model part is read without a DOM: one scanner over    *)
(* the tags, a first pass that lifts every mesh out and leaves a skeleton  *)
(* for the DOM, and for each mesh a pass that counts, then two that fill   *)
(* arrays of exactly that size.  Nothing validates what is inside a mesh.  *)
(*                                                                         *)
(* A document is a sequence of tokens: tags, the beginning and the end of  *)
(* a comment (CDATA and processing instructions are skipped alike), and a  *)
(* declaration.  A triangle names one of its vertices.                     *)
(***************************************************************************)
EXTENDS Integers, SequencesExt

CONSTANTS Documents, MaxXmlDepth, MaxElements, MaxVertices, MaxTriangles

VARIABLES
  doc,      \* the model part
  pass,     \* "scan", "read", "done" or "refused"
  excised,  \* [skeleton, spans]
  meshes    \* what was read of each span

vars == <<doc, pass, excised, meshes>>

Tag(kind, name) == [kind |-> kind, name |-> name]
Triangle(v) == [kind |-> "self", name |-> "triangle", v |-> v]
CommentStart == [kind |-> "quote"]
CommentEnd == [kind |-> "unquote"]
Declaration == [kind |-> "bang"]

-----------------------------------------------------------------------------
(* The scanner.                                                            *)

Outer(depth) == IF depth = 0 THEN 0 ELSE depth - 1

\* The tags of doc from the token "from" up to the one before "to", each with its depth.
scanXmlTags(d, from, to) ==
  LET Visit(s, i) ==
        LET t == d[i]
            See(depth, next) == [s EXCEPT !.depth = next, !.tags = Append(@, [at |-> i, tag |-> t, depth |-> depth]),
                                          !.error = @ \/ next > MaxXmlDepth]
        IN CASE s.hidden -> [s EXCEPT !.hidden = t.kind # "unquote"]
             [] ~s.hidden /\ t.kind = "quote" -> [s EXCEPT !.hidden = TRUE]
             [] ~s.hidden /\ t.kind = "unquote" -> s
             [] ~s.hidden /\ t.kind = "bang" -> [s EXCEPT !.error = TRUE]
             [] ~s.hidden /\ t.kind = "close" -> See(Outer(s.depth) + 1, Outer(s.depth))
             [] ~s.hidden /\ t.kind = "open" -> See(s.depth + 1, s.depth + 1)
             [] ~s.hidden /\ t.kind = "self" -> See(s.depth + 1, s.depth)
      scan == FoldLeft(Visit, [depth |-> 0, hidden |-> FALSE, tags |-> <<>>, error |-> FALSE],
                       [k \in 1..(to - from) |-> from + k - 1])
  IN [tags |-> scan.tags, error |-> scan.error \/ scan.hidden]

tagNameIs(t, name) == t.tag.name = name

\* "<!DOCTYPE" anywhere, in a comment or not.
rejectDoctypeBytes(d) == \E i \in DOMAIN d : d[i].kind = "bang"

preflightXml(d) ==
  LET scan == scanXmlTags(d, 1, Len(d) + 1)
  IN scan.error \/ Len(SelectSeq(scan.tags, LAMBDA t : t.tag.kind # "close")) > MaxElements

parseXmlBuffer(d) == rejectDoctypeBytes(d) \/ preflightXml(d)

-----------------------------------------------------------------------------
(* Lifting the meshes out.                                                 *)

Marker(k) == [kind |-> "self", name |-> "mesh", span |-> k]

\* The document up to "from" with a marker after it; the rest begins at "resume".
keep(s, d, from, resume) ==
  [s EXCEPT !.skeleton = @ \o SubSeq(d, s.cut, from - 1) \o <<Marker(Len(s.spans) + 1)>>, !.cut = resume]

\* Mutant: the first closing tag of a mesh ends it.
EndsMesh_AnyDepth(t, s) == t.tag.kind = "close" /\ tagNameIs(t, "mesh")

EndsMesh(t, s) == t.tag.kind = "close" /\ t.depth = s.meshDepth /\ tagNameIs(t, "mesh")

exciseMeshes(d) ==
  LET scan == scanXmlTags(d, 1, Len(d) + 1)
      See(s, t) ==
        CASE s.open # 0 ->
               IF ~EndsMesh(t, s) THEN s
               ELSE [keep(s, d, s.open, t.at + 1) EXCEPT !.spans = Append(@, [from |-> s.open + 1, to |-> t.at]), !.open = 0]
          [] s.open = 0 /\ t.tag.kind # "close" ->
               LET counted == [s EXCEPT !.structural = @ + 1]
               IN CASE ~tagNameIs(t, "mesh") -> counted
                    [] tagNameIs(t, "mesh") /\ t.tag.kind = "self" ->
                         [keep(counted, d, t.at, t.at + 1) EXCEPT !.spans = Append(@, [from |-> t.at + 1, to |-> t.at + 1])]
                    [] OTHER -> [counted EXCEPT !.open = t.at, !.meshDepth = t.depth]
          [] OTHER -> s
      end == FoldLeft(See, [skeleton |-> <<>>, spans |-> <<>>, cut |-> 1, open |-> 0, meshDepth |-> 0, structural |-> 0],
                      scan.tags)
  IN [skeleton |-> end.skeleton \o SubSeq(d, end.cut, Len(d)), spans |-> end.spans,
      error |-> scan.error \/ rejectDoctypeBytes(d) \/ end.open # 0 \/ end.structural > MaxElements]

-----------------------------------------------------------------------------
(* Reading a mesh.                                                         *)

Section == [from |-> 0, to |-> 0, depth |-> 0, inside |-> FALSE]

\* The first section of its name opens.
Opens(section, t) ==
  IF t.tag.kind = "self" THEN [section EXCEPT !.from = t.at + 1, !.to = t.at + 1]
  ELSE [section EXCEPT !.from = t.at + 1, !.depth = t.depth, !.inside = TRUE]

Closes(section, t, name) == section.inside /\ t.depth = section.depth /\ tagNameIs(t, name)

Closed(section, t) == [section EXCEPT !.to = t.at, !.inside = FALSE]

\* The counting pass.
CountPass(d, span) ==
  LET scan == scanXmlTags(d, span.from, span.to)
      See(s, t) ==
        CASE t.tag.kind = "close" ->
               IF Closes(s.vertices, t, "vertices") THEN [s EXCEPT !.vertices = Closed(@, t)]
               ELSE IF Closes(s.triangles, t, "triangles") THEN [s EXCEPT !.triangles = Closed(@, t)] ELSE s
          [] t.tag.kind # "close" /\ tagNameIs(t, "vertices") /\ s.vertices.from = 0 -> [s EXCEPT !.vertices = Opens(@, t)]
          [] t.tag.kind # "close" /\ tagNameIs(t, "triangles") /\ s.triangles.from = 0 -> [s EXCEPT !.triangles = Opens(@, t)]
          [] t.tag.kind # "close" /\ tagNameIs(t, "vertex") /\ s.vertices.inside -> [s EXCEPT !.vertexCount = @ + 1]
          [] t.tag.kind # "close" /\ tagNameIs(t, "triangle") /\ s.triangles.inside -> [s EXCEPT !.triangleCount = @ + 1]
          [] OTHER -> s
      end == FoldLeft(See, [vertices |-> Section, triangles |-> Section, vertexCount |-> 0, triangleCount |-> 0], scan.tags)
  IN [end EXCEPT !.vertices.to = IF @ = 0 THEN span.to ELSE @, !.triangles.to = IF @ = 0 THEN span.to ELSE @]
     @@ [error |-> scan.error \/ end.vertices.from = 0 \/ end.triangles.from = 0]

\* The tags of one kind in a section, as the filling passes meet them.
Members(d, section, name) ==
  SelectSeq(scanXmlTags(d, section.from, section.to).tags, LAMBDA t : t.tag.kind # "close" /\ tagNameIs(t, name))

\* Mutant: the section is read to the end of the mesh.
FillSection_ToTheEnd(section, span) == [section EXCEPT !.to = span.to]

FillSection(section, span) == section

\* What the arrays end up with: how many were counted, and what was written.
FillArrays(count, verts, faces, budget) ==
  LET written == SubSeq(faces, 1, IF Len(faces) < count.triangleCount THEN Len(faces) ELSE count.triangleCount)
      Index(i) == IF "v" \in DOMAIN written[i].tag THEN written[i].tag.v ELSE 0
      total == [vertices |-> budget.vertices + count.vertexCount, triangles |-> budget.triangles + count.triangleCount]
  IN IF count.error \/ total.vertices > MaxVertices \/ total.triangles > MaxTriangles
          \/ \E i \in DOMAIN written : Index(i) >= count.vertexCount
       THEN [error |-> TRUE, budget |-> total]
       ELSE [error |-> FALSE, budget |-> total, sizes |-> <<count.vertexCount, count.triangleCount>>,
             vertices |-> Len(verts), triangles |-> [i \in DOMAIN written |-> Index(i)]]

readMeshSpan(d, span, budget) ==
  LET count == CountPass(d, span)
  IN FillArrays(count, Members(d, FillSection(count.vertices, span), "vertex"),
                Members(d, FillSection(count.triangles, span), "triangle"), budget)

-----------------------------------------------------------------------------
Init ==
  /\ doc \in Documents
  /\ pass = "scan" /\ excised = [skeleton |-> <<>>, spans |-> <<>>] /\ meshes = <<>>

\* exciseMeshes, and the DOM of the skeleton.
Excise ==
  /\ pass = "scan"
  /\ LET e == exciseMeshes(doc)
     IN IF e.error \/ parseXmlBuffer(e.skeleton) THEN pass' = "refused" /\ UNCHANGED excised
        ELSE pass' = "read" /\ excised' = [skeleton |-> e.skeleton, spans |-> e.spans]
  /\ UNCHANGED <<doc, meshes>>

\* The next mesh, on the budget that the earlier ones have left.
Read ==
  /\ pass = "read" /\ Len(meshes) < Len(excised.spans)
  /\ LET budget == IF meshes = <<>> THEN [vertices |-> 0, triangles |-> 0] ELSE Last(meshes).budget
         mesh == readMeshSpan(doc, excised.spans[Len(meshes) + 1], budget)
     IN IF mesh.error THEN pass' = "refused" /\ UNCHANGED meshes
        ELSE meshes' = Append(meshes, mesh) /\ UNCHANGED pass
  /\ UNCHANGED <<doc, excised>>

Finish ==
  /\ pass = "read" /\ Len(meshes) = Len(excised.spans)
  /\ pass' = "done"
  /\ UNCHANGED <<doc, excised, meshes>>

Next == Excise \/ Read \/ Finish

Spec == Init /\ [][Next]_vars

-----------------------------------------------------------------------------
(* A DOM, for comparison.                                                  *)

TypeOK == pass \in {"scan", "read", "done", "refused"} /\ Len(meshes) <= Len(excised.spans)

\* The tokens that a DOM makes nodes of.
Nodes == SelectSeq([i \in DOMAIN doc |-> i], LAMBDA i :
  /\ doc[i].kind \in {"open", "close", "self"}
  /\ LET before == {k \in 1..(i - 1) : doc[k].kind \in {"quote", "unquote"}}
         Opened(k) == doc[k].kind = "quote" /\ \A h \in before : h > k => doc[h].kind # "unquote"
     IN ~\E k \in before : Opened(k))

\* Where the element that opens at token i ends, if it does.
RECURSIVE EndOf(_, _)
EndOf(i, inner) ==
  LET later == {k \in ToSet(Nodes) : k > i /\ k \notin inner /\ doc[k].kind # "self"}
      k == CHOOSE x \in later : \A y \in later : x <= y
  IN IF later = {} THEN 0
     ELSE IF doc[k].kind = "close" THEN IF doc[k].name = doc[i].name THEN k ELSE 0
     ELSE LET end == EndOf(k, inner) IN IF end = 0 THEN 0 ELSE EndOf(i, inner \cup k..end)

Opened == {i \in ToSet(Nodes) : doc[i].kind = "open"}

WellFormed ==
  /\ \A i \in Opened : EndOf(i, {}) # 0
  /\ Cardinality(Opened) = Cardinality({i \in ToSet(Nodes) : doc[i].kind = "close"})

\* The elements of a name within the element at i, in document order.
Descendants(i, name) ==
  LET end == IF doc[i].kind = "self" THEN i ELSE EndOf(i, {})
  IN SelectSeq(Nodes, LAMBDA k : i < k /\ k < end /\ doc[k].kind # "close" /\ doc[k].name = name)

OuterMeshes ==
  LET mesh(i) == doc[i].kind # "close" /\ doc[i].name = "mesh"
  IN SelectSeq(Nodes, LAMBDA i : mesh(i) /\ ~\E k \in Opened : mesh(k) /\ k < i /\ i < EndOf(k, {}))

\* Read without a DOM, a well-formed document holds the meshes a DOM would find, each
\* with the vertices and triangles that the DOM finds in it (threemf.ts:927-943).
StreamedAsDom ==
  pass = "done" /\ WellFormed =>
    /\ Len(meshes) = Len(OuterMeshes)
    /\ \A k \in DOMAIN meshes :
         LET at == OuterMeshes[k]
             faces == Descendants(Descendants(at, "triangles")[1], "triangle")
         IN /\ meshes[k].vertices = Len(Descendants(Descendants(at, "vertices")[1], "vertex"))
            /\ meshes[k].triangles = [i \in DOMAIN faces |-> IF "v" \in DOMAIN doc[faces[i]] THEN doc[faces[i]].v ELSE 0]

\* Whatever is inside a mesh, the filling passes fill the arrays that the counting pass
\* had sized: no vertex and no triangle of zeros is priced (threemf.ts:1014-1020).
Filled == \A k \in DOMAIN meshes : meshes[k].sizes = <<meshes[k].vertices, Len(meshes[k].triangles)>>

\* The DOM of the rest is built from the document with one marker for each mesh, in
\* their order, and nothing else of a mesh (threemf.ts:934-943).
Marked ==
  pass \in {"read", "done"} /\ WellFormed =>
    LET Within(k, i) == i = OuterMeshes[k] \/ (doc[OuterMeshes[k]].kind = "open" /\ i \in OuterMeshes[k]..EndOf(OuterMeshes[k], {}))
        Rest == SelectSeq([i \in DOMAIN doc |-> i], LAMBDA i :
                  \A k \in DOMAIN OuterMeshes : Within(k, i) => i = OuterMeshes[k])
        Token(i) == IF \E k \in DOMAIN OuterMeshes : OuterMeshes[k] = i
                      THEN Marker(CHOOSE k \in DOMAIN OuterMeshes : OuterMeshes[k] = i) ELSE doc[i]
    IN excised.skeleton = [n \in DOMAIN Rest |-> Token(Rest[n])]

MeshesKept == TypeOK /\ StreamedAsDom /\ Filled /\ Marked
================================================================================
