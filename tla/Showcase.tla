------------------------------ MODULE Showcase ------------------------------
(***************************************************************************)
(* The public list of recent prints: the administrator's editor uploads    *)
(* photos one by one and stores the whole list, and a stored list removes  *)
(* the files that it does not name any more.  The list is a row of the     *)
(* database and the photos are files: nothing ties the two but the order   *)
(* of the writes.  A page may be loaded again while its requests run.      *)
(***************************************************************************)
EXTENDS Integers, SequencesExt

CONSTANTS
  Photos,      \* the ids of uploaded photos
  MaxPrints,   \* MAX_RECENT_PRINTS
  MaxLoads,    \* bound on how often the editor is opened
  MaxSaves     \* bound on PUT requests

VARIABLES
  files,    \* [Photos -> {"none", "young", "old", "gone"}]: uploads/showcase
  list,     \* the stored list, entries [id, named]
  editor,   \* [load, items, dirty, busy, stale]
  posts,    \* uploads under way: [id, at, load]
  puts,     \* saves under way, in the order they were sent
  saves,    \* how many there were
  mixed,    \* ghost: a save overlapped another one, or came from a page that was out of date
  fate      \* ghost: the photos ever [listed], [removed] in the editor, [refused] by a save
            \*        for want of a caption or of room, and deleted while young [hasty]

vars == <<files, list, editor, posts, puts, saves, mixed, fate>>

IdsOf(items) == {items[i].id : i \in DOMAIN items}

\* Those at some places, in their order.
Kept(items, places) ==
  LET kept[n \in 0..Len(items)] ==
        IF n = 0 THEN <<>> ELSE IF n \in places THEN Append(kept[n - 1], items[n]) ELSE kept[n - 1]
  IN kept[Len(items)]

\* Entries without a caption are dropped, and those past the limit.
normalizeRecentPrints(items) ==
  LET named == Kept(items, {i \in DOMAIN items : items[i].named})
  IN SubSeq(named, 1, IF Len(named) > MaxPrints THEN MaxPrints ELSE Len(named))

Page(n, items, stale) == [load |-> n, items |-> items, dirty |-> FALSE, busy |-> "idle", stale |-> stale]

Init ==
  /\ files = [p \in Photos |-> "none"] /\ list = <<>>
  /\ editor = Page(1, <<>>, FALSE)
  /\ posts = {} /\ puts = <<>> /\ saves = 0 /\ mixed = FALSE
  /\ fate = [listed |-> {}, removed |-> {}, refused |-> {}, hasty |-> {}]

-----------------------------------------------------------------------------
(* The editor.                                                             *)

\* The page is loaded; a list that cannot be read looks like an empty one.
Load ==
  /\ editor.load < MaxLoads
  /\ \E read \in {list, <<>>} :
       editor' = Page(editor.load + 1, read, read # list \/ puts # <<>>)
  /\ UNCHANGED <<files, list, posts, puts, saves, mixed, fate>>

mutate(items) == editor' = [editor EXCEPT !.items = items, !.dirty = TRUE]

move(i) ==
  /\ i < Len(editor.items)
  /\ mutate([editor.items EXCEPT ![i] = editor.items[i + 1], ![i + 1] = editor.items[i]])

Caption(i) == mutate([editor.items EXCEPT ![i].named = ~@])

Trash(i) ==
  /\ mutate(RemoveAt(editor.items, i))
  /\ fate' = [fate EXCEPT !.removed = @ \cup {editor.items[i].id}]

Edit ==
  /\ \E i \in DOMAIN editor.items : ((move(i) \/ Caption(i)) /\ UNCHANGED fate) \/ Trash(i)
  /\ UNCHANGED <<files, list, posts, puts, saves, mixed>>

\* Files may be dropped at any time, during a save too.
acceptFiles ==
  /\ \E p \in Photos :
       /\ files[p] = "none" /\ \A r \in posts : r.id # p
       /\ posts' = posts \cup {[id |-> p, at |-> "sent", load |-> editor.load]}
  /\ editor' = [editor EXCEPT !.busy = "uploading"]
  /\ UNCHANGED <<files, list, puts, saves, mixed, fate>>

\* A new photo goes on top, captioned with its file's name.
uploadOne(r) ==
  /\ r.at \in {"stored", "failed"}
  /\ posts' = posts \ {r}
  /\ editor' = IF r.load # editor.load THEN editor
               ELSE IF r.at = "failed" THEN [editor EXCEPT !.busy = "idle"]
               ELSE [editor EXCEPT !.busy = "idle", !.dirty = TRUE,
                                   !.items = <<[id |-> r.id, named |-> TRUE]>> \o @]
  /\ UNCHANGED <<files, list, puts, saves, mixed, fate>>

save ==
  /\ editor.dirty /\ editor.busy = "idle" /\ saves < MaxSaves
  /\ puts' = Append(puts, [at |-> "read", prints |-> editor.items, previous |-> <<>>,
                           saved |-> <<>>, load |-> editor.load])
  /\ saves' = saves + 1
  /\ mixed' = (mixed \/ editor.stale \/ puts # <<>>)
  /\ editor' = [editor EXCEPT !.busy = "saving"]
  /\ UNCHANGED <<files, list, posts, fate>>

\* Mutant: the editor keeps its own list.
Shown_Own(put, items) == items

\* "Take the server's normalized list back".
Shown(put, items) == put.saved

saveAnswered(i) ==
  /\ puts[i].at \in {"pruned", "failed"}
  /\ puts' = RemoveAt(puts, i)
  /\ editor' = IF puts[i].load # editor.load THEN editor
               ELSE IF puts[i].at = "failed" THEN [editor EXCEPT !.busy = "idle"]
               ELSE [editor EXCEPT !.busy = "idle", !.dirty = FALSE, !.items = Shown(puts[i], @)]
  /\ UNCHANGED <<files, list, posts, saves, mixed, fate>>

-----------------------------------------------------------------------------
(* The server.                                                             *)

\* POST: a file under a new id; a photo that is not one is refused.
POST(r) ==
  /\ r.at = "sent"
  /\ \/ /\ posts' = (posts \ {r}) \cup {[r EXCEPT !.at = "stored"]}
        /\ files' = [files EXCEPT ![r.id] = "young"]
     \/ /\ posts' = (posts \ {r}) \cup {[r EXCEPT !.at = "failed"]}
        /\ UNCHANGED files
  /\ UNCHANGED <<list, editor, puts, saves, mixed, fate>>

\* PUT, step by step: the list there was, or none when it cannot be read.
ReadPrevious(i) ==
  /\ puts[i].at = "read"
  /\ \E previous \in {list, <<>>} : puts' = [puts EXCEPT ![i].at = "save", ![i].previous = previous]
  /\ UNCHANGED <<files, list, editor, posts, saves, mixed, fate>>

saveRecentPrints(i) ==
  /\ puts[i].at = "save"
  /\ LET normalized == normalizeRecentPrints(puts[i].prints)
     IN \/ /\ list' = normalized
           /\ puts' = [puts EXCEPT ![i].at = "prune", ![i].saved = normalized]
           /\ fate' = [fate EXCEPT !.listed = @ \cup IdsOf(normalized),
                                   !.refused = @ \cup (IdsOf(puts[i].prints) \ IdsOf(normalized))]
        \/ puts' = [puts EXCEPT ![i].at = "failed"] /\ UNCHANGED <<list, fate>>
  /\ UNCHANGED <<files, editor, posts, saves, mixed>>

\* Mutant: an upload that no list names goes at once.
Unreferenced_Now(put) == {p \in Photos : files[p] \in {"young", "old"} /\ p \notin IdsOf(put.saved)}

\* Mutant: all that the previous list had goes.
Unreferenced_Previous(put) ==
  {p \in Photos : /\ files[p] \in {"young", "old"}
                  /\ p \in IdsOf(put.previous) \/ (files[p] = "old" /\ p \notin IdsOf(put.saved))}

\* What the previous list had goes at once, what no list has had when it is old.
Unreferenced(put) ==
  {p \in Photos : /\ files[p] \in {"young", "old"} /\ p \notin IdsOf(put.saved)
                  /\ p \in IdsOf(put.previous) \/ files[p] = "old"}

pruneUnreferencedShowcasePhotos(i) ==
  /\ puts[i].at = "prune"
  /\ \/ /\ \E p \in Unreferenced(puts[i]) :
             /\ files' = [files EXCEPT ![p] = "gone"]
             /\ fate' = IF files[p] = "young" THEN [fate EXCEPT !.hasty = @ \cup {p}] ELSE fate
        /\ UNCHANGED puts
     \/ /\ Unreferenced(puts[i]) = {}
        /\ puts' = [puts EXCEPT ![i].at = "pruned"]
        /\ UNCHANGED <<files, fate>>
  /\ UNCHANGED <<list, editor, posts, saves, mixed>>

\* The server dies, and with it what it was doing: the requests fail in the browser.
Crash ==
  /\ posts # {} \/ puts # <<>>
  /\ posts' = {[r EXCEPT !.at = "failed"] : r \in posts}
  /\ puts' = [i \in DOMAIN puts |-> [puts[i] EXCEPT !.at = "failed"]]
  /\ UNCHANGED <<files, list, editor, saves, mixed, fate>>

\* ORPHAN_GRACE_MS goes by; no request takes an hour.
Hour ==
  /\ puts = <<>> /\ posts = {} /\ \E p \in Photos : files[p] = "young"
  /\ files' = [p \in Photos |-> IF files[p] = "young" THEN "old" ELSE files[p]]
  /\ UNCHANGED <<list, editor, posts, puts, saves, mixed, fate>>

Next ==
  \/ Load \/ Edit \/ acceptFiles \/ save \/ Crash \/ Hour
  \/ \E r \in posts : uploadOne(r) \/ POST(r)
  \/ \E i \in DOMAIN puts :
       saveAnswered(i) \/ ReadPrevious(i) \/ saveRecentPrints(i) \/ pruneUnreferencedShowcasePhotos(i)

Spec == Init /\ [][Next]_vars

-----------------------------------------------------------------------------
TypeOK ==
  /\ files \in [Photos -> {"none", "young", "old", "gone"}]
  /\ Len(list) <= MaxPrints /\ saves \in 0..MaxSaves /\ mixed \in BOOLEAN

\* The public page shows no broken picture: the photo of every stored entry is there,
\* through failed reads and writes, deaths of the server and answers that are lost.
\* Not so where saves overlapped, a save came from a page that was out of date, or an
\* entry came back that a save had refused.
PhotoBehindList == ~mixed => \A id \in IdsOf(list) \ fate.refused : files[id] \in {"young", "old"}

\* What is published stays published until the editor removes it, or refuses it.
NothingLost == ~mixed => fate.listed \ IdsOf(list) \subseteq fate.removed \cup fate.refused

\* "A photo that has been uploaded but never appeared in the list must survive long
\* enough": no save deletes it within the hour, whatever overlaps (showcase-photos.ts:6-7).
GraceKept == fate.hasty \subseteq fate.listed

\* An editor with nothing to save shows what is stored.
EditorTrue == ~mixed /\ ~editor.stale /\ ~editor.dirty /\ puts = <<>> => editor.items = list

ShowcaseTrue == TypeOK /\ PhotoBehindList /\ NothingLost /\ GraceKept /\ EditorTrue
=============================================================================
