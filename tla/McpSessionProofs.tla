--------------------------- MODULE McpSessionProofs ---------------------------
(***************************************************************************)
(* Proofs, for any files, contents, commits and number of disturbances,    *)
(* that the answer of an MCP tool call is of what was asked for, that its  *)
(* envelope is right about it and that its version names its graph.        *)
(*                                                                         *)
(* The inductive invariant says what each walk of an undisturbed call has  *)
(* gathered so far is what the disk still holds, what each look it took at *)
(* HEAD, the pointer and the store still says, and, whatever moves, that a *)
(* graph read under a key is that key's but for the two races the          *)
(* properties name.                                                        *)
(***************************************************************************)
EXTENDS McpSession, FiniteSetTheorems, TLAPS

Indexing == {"enumerate", "put", "prune", "publish"}
Loading == {"load", "graphFor", "read", "reading", "served"}
Stages == {"idle", "walk", "ensure", "pointer", "resolve", "head", "rewalk", "count",
           "answer"} \cup Indexing \cup Loading

Calls == [dirty : BOOLEAN, rebuild : BOOLEAN, lost : BOOLEAN, base : Snapshots,
          first : Snapshots, tree : Snapshots, key : Keys, graph : Snapshots,
          last : Snapshots, headTree : Snapshots]

SessionTypeOK ==
  /\ gitHead \in Trees /\ work \in Snapshots /\ index \in Trees \cup {Absent}
  /\ stored \in [Trees -> Trees \cup {Absent}]
  /\ stage \in Stages
  /\ left \subseteq Files
  /\ call \in Calls
  /\ quiet \in BOOLEAN /\ mixed \in BOOLEAN /\ swept \in BOOLEAN

(* Only a call over the working directory walks it, and it loads a graph   *)
(* only where the first walk found no overlay.  Indexing and loading have  *)
(* the key of a commit in hand.                                            *)
StageFitsCall ==
  /\ stage \in {"walk", "rewalk", "count"} => call.dirty
  /\ stage = "head" => ~ call.dirty
  /\ stage \in Loading /\ call.dirty => Overlay(call.base, call.first) = {}
  /\ stage \in (Indexing \cup Loading) \ {"load"} =>
       call.key = TreeKey(call.key.files) /\ call.key.files \in Trees
  /\ stage = "put" => call.tree \in Trees

(* A walk that has yet to read the files rest agrees with the disk. *)
AgreesBut(walked, rest) == \A f \in Files \ rest : walked[f] = work[f]

(* What an undisturbed call over the working directory knows. *)
DirtyCallIsFresh ==
  quiet /\ ~ mixed /\ call.dirty /\ stage # "idle" =>
    /\ call.base = gitHead
    /\ IF stage = "walk" THEN AgreesBut(call.first, left) ELSE call.first = work
    /\ stage = "rewalk" => AgreesBut(call.graph, left)
    /\ stage = "count" => AgreesBut(call.last, left)
    /\ stage \in {"count", "answer"} => call.graph = work
    /\ stage = "answer" => call.last = work /\ call.headTree = gitHead

(* What an undisturbed call over the committed tree knows. *)
CommittedCallIsFresh ==
  quiet /\ ~ mixed /\ ~ call.dirty =>
    /\ stage = "pointer" => call.headTree = gitHead
    /\ stage \in (Indexing \cup Loading) \ {"load"} => call.key = TreeKey(gitHead)
    /\ stage = "load" => index = gitHead
    /\ stage \in {"head", "answer"} => call.graph = gitHead

(* Whatever moves: the store holds no graph under another tree's key until *)
(* some run puts one there.                                                *)
StoreIsNamed == ~ mixed => \A t \in Trees : stored[t] \in {t, Absent}

(* A ref that was found is gone only where a prune took it, which nothing  *)
(* in a quiet call does.                                                   *)
RefIsThere ==
  /\ stage = "read" /\ ~ swept => stored[call.key.files] # Absent
  /\ quiet /\ stage # "idle" => ~ swept

(* And what was read is the key's own. *)
ReadIsNamed ==
  ~ mixed =>
    /\ stage = "reading" => call.graph = call.key.files
    /\ stage \in {"served", "head"} /\ ~ swept => call.graph = call.key.files
    /\ stage = "head" => call.key = TreeKey(call.key.files)
    /\ stage = "answer" /\ ~ swept /\ ~ call.dirty => call.key = TreeKey(call.graph)

(* The version of an answer given undisturbed tells its graph. *)
Tells(version, graph) == \E b \in Snapshots : version = <<b, Overlay(b, graph)>>

EarlierIsTold ==
  ~ mixed /\ earlier.given /\ earlier.sure =>
    earlier.graph \in Snapshots /\ Tells(earlier.version, earlier.graph)

IInv ==
  /\ SessionTypeOK
  /\ StageFitsCall
  /\ DirtyCallIsFresh
  /\ CommittedCallIsFresh
  /\ StoreIsNamed
  /\ RefIsThere
  /\ ReadIsNamed
  /\ EarlierIsTold

-------------------------------------------------------------------------------
LEMMA NoCallIsACall ==
  NoCall \in Calls /\ ~ NoCall.dirty /\ NoFiles \in Snapshots
  BY DEF NoCall, Calls, NoFiles, Snapshots, TreeKey, Keys

LEMMA TreesAreSnapshots == \A t \in Trees : t \in Snapshots
  BY TreesAssumption

(* Snapshots are equal when they agree on every file. *)
LEMMA SameFiles ==
  ASSUME NEW v \in Snapshots, NEW w \in Snapshots, \A f \in Files : v[f] = w[f]
  PROVE  v = w
  BY DEF Snapshots

(* An overlay over a base tells the working directory it was taken of. *)
LEMMA OverlayTells ==
  ASSUME NEW b \in Snapshots, NEW v \in Snapshots, NEW w \in Snapshots,
         Overlay(b, v) = Overlay(b, w)
  PROVE  v = w
<1>1. ASSUME NEW f \in Files PROVE v[f] = w[f]
  <2>1. CASE v[f] # b[f]
    <3>1. <<f, v[f]>> \in Overlay(b, v)
      BY <2>1 DEF Overlay, Differs
    <3>2. PICK g \in Files : <<f, v[f]>> = <<g, w[g]>>
      BY <3>1 DEF Overlay
    <3> QED
      BY <3>2
  <2>2. CASE w[f] # b[f]
    <3>1. <<f, w[f]>> \in Overlay(b, w)
      BY <2>2 DEF Overlay, Differs
    <3>2. PICK g \in Files : <<f, w[f]>> = <<g, v[g]>>
      BY <3>1 DEF Overlay
    <3> QED
      BY <3>2
  <2> QED
    BY <2>1, <2>2
<1> QED
  BY <1>1, SameFiles

(* There is no overlay exactly where nothing differs. *)
LEMMA EmptyOverlay ==
  ASSUME NEW b \in Snapshots, NEW w \in Snapshots
  PROVE  Overlay(b, w) = {} <=> w = b
<1>1. ASSUME Overlay(b, w) = {} PROVE w = b
  <2>1. ASSUME NEW f \in Files PROVE w[f] = b[f]
    <3>1. SUFFICES ASSUME w[f] # b[f] PROVE FALSE
      OBVIOUS
    <3>2. <<f, w[f]>> \in Overlay(b, w)
      BY <3>1 DEF Overlay, Differs
    <3> QED
      BY <3>2, <1>1
  <2> QED
    BY <2>1, SameFiles
<1>2. ASSUME w = b PROVE Overlay(b, w) = {}
  BY <1>2 DEF Overlay, Differs
<1> QED
  BY <1>1, <1>2

-------------------------------------------------------------------------------
LEMMA InitIInv == SessionInit => IInv
<1> SUFFICES ASSUME SessionInit PROVE IInv
  OBVIOUS
<1> USE DEF SessionInit
<1>1. PICK ts \in SUBSET Trees :
        stored = [t \in Trees |-> IF t \in ts THEN t ELSE Absent]
  OBVIOUS
<1>2. SessionTypeOK /\ StoreIsNamed
  BY <1>1, NoCallIsACall DEF SessionTypeOK, Stages, StoreIsNamed
<1>3. /\ StageFitsCall /\ DirtyCallIsFresh /\ CommittedCallIsFresh
      /\ RefIsThere /\ ReadIsNamed
  BY DEF StageFitsCall, DirtyCallIsFresh, CommittedCallIsFresh, RefIsThere,
         ReadIsNamed, Indexing, Loading
<1>4. EarlierIsTold
  BY DEF EarlierIsTold, NoAnswer
<1> QED
  BY <1>2, <1>3, <1>4 DEF IInv

(* One more file of a walk. *)
LEMMA WalkOneFile ==
  ASSUME SessionTypeOK, NEW walked \in Snapshots, NEW f \in left,
         NEW next, next = [walked EXCEPT ![f] = work[f]]
  PROVE  /\ next \in Snapshots
         /\ AgreesBut(walked, left) => AgreesBut(next, left \ {f})
<1>1. f \in Files /\ work[f] \in Contents \cup {Absent}
  BY DEF SessionTypeOK, Snapshots
<1>2. next \in Snapshots
  BY <1>1 DEF Snapshots
<1>3. \A g \in Files : next[g] = IF g = f THEN work[f] ELSE walked[g]
  BY <1>1 DEF Snapshots
<1> QED
  BY <1>2, <1>3 DEF AgreesBut

LEMMA WalkIsDone ==
  ASSUME SessionTypeOK, NEW walked \in Snapshots, AgreesBut(walked, {})
  PROVE  walked = work
  BY SameFiles DEF SessionTypeOK, AgreesBut

-------------------------------------------------------------------------------
(* The version of the answer about to be given, where nothing disturbed it *)
(* or it is over the committed tree, tells its graph.                      *)
LEMMA AnswerIsTold ==
  ASSUME IInv, stage = "answer", quiet \/ ~ call.dirty, ReadAsStored
  PROVE  Tells(Version, call.graph)
<1> USE DEF IInv, ReadAsStored
<1>1. CASE call.dirty
  <2>1. call.first = call.graph /\ call.base \in Snapshots
    BY <1>1 DEF DirtyCallIsFresh, SessionTypeOK, Calls
  <2> QED
    BY <1>1, <2>1 DEF Tells, Version
<1>2. CASE ~ call.dirty
  <2>1. call.key.files = call.graph /\ call.graph \in Snapshots
    BY <1>2 DEF ReadIsNamed, TreeKey, SessionTypeOK, Calls
  <2>2. Overlay(call.graph, call.graph) = {}
    BY <2>1, EmptyOverlay
  <2> QED
    BY <1>2, <2>1, <2>2 DEF Tells, Version
<1> QED
  BY <1>1, <1>2

(* What the history variables say after a step. *)
LEMMA RememberTells ==
  ASSUME SessionTypeOK, Remember
  PROVE  /\ mixed' \in BOOLEAN /\ swept' \in BOOLEAN
         /\ StoreIsNamed'
         /\ ~ mixed' => ~ mixed
         /\ stage = "idle" => ~ swept'
         /\ stage # "idle" /\ ~ swept' => ~ swept
         /\ stage = "read" /\ ~ swept' => stored'[call.key.files] # Absent
         /\ ~ swept /\ stage # "read" => ~ swept'
         /\ ~ swept /\ stored'[call.key.files] # Absent => ~ swept'
<1>1. /\ mixed' \in BOOLEAN
      /\ ~ mixed' => ~ mixed /\ \A t \in Trees : stored'[t] \in {t, Absent}
  BY Zenon DEF Remember
<1>2. /\ swept' \in BOOLEAN
      /\ swept' <=> /\ stage # "idle"
                    /\ swept \/ (stage = "read" /\ stored'[call.key.files] = Absent)
  BY Zenon DEF Remember, SessionTypeOK
<1> QED
  BY <1>1, <1>2 DEF StoreIsNamed

-------------------------------------------------------------------------------
(* acquire begins: nothing is known yet. *)
LEMMA BeginIInv ==
  ASSUME IInv, BeginCommitted \/ BeginDirty, Remember, quiet' \in BOOLEAN
  PROVE  IInv'
<1> USE DEF IInv, Goto, worldVars
<1>1. /\ stage = "idle" /\ stage' \in {"ensure", "walk"}
      /\ UNCHANGED <<gitHead, work, index, stored, earlier>>
  BY DEF BeginCommitted, BeginDirty
<1>2. /\ mixed' \in BOOLEAN /\ ~ swept' /\ swept' \in BOOLEAN /\ StoreIsNamed'
      /\ ~ mixed' => ~ mixed
  BY <1>1, RememberTells
<1>3. /\ left' \subseteq Files /\ call' \in Calls
      /\ stage' = "walk" =>
           call'.dirty /\ call'.base = gitHead /\ left' = Files
      /\ stage' = "ensure" => ~ call'.dirty
  <2>1. CASE BeginCommitted
    BY <2>1, NoCallIsACall DEF BeginCommitted, Calls, SessionTypeOK
  <2>2. CASE BeginDirty
    BY <2>2, NoCallIsACall, TreesAreSnapshots DEF BeginDirty, Calls, SessionTypeOK
  <2> QED
    BY <2>1, <2>2
<1>4. SessionTypeOK'
  BY <1>1, <1>2, <1>3 DEF SessionTypeOK, Stages
<1>5. StageFitsCall' /\ DirtyCallIsFresh' /\ CommittedCallIsFresh'
  BY <1>1, <1>3 DEF StageFitsCall, DirtyCallIsFresh, CommittedCallIsFresh, AgreesBut,
                    Indexing, Loading
<1>6. RefIsThere' /\ ReadIsNamed' /\ EarlierIsTold'
  BY <1>1, <1>2 DEF RefIsThere, ReadIsNamed, EarlierIsTold, Tells
<1> QED
  BY <1>2, <1>4, <1>5, <1>6

(* A failed call leaves nothing behind. *)
LEMMA EndIInv ==
  ASSUME IInv, Remember, quiet' \in BOOLEAN, stage # "idle", stage' = "idle",
         call' = NoCall, UNCHANGED <<worldVars, left>>, EarlierIsTold'
  PROVE  IInv'
<1> USE DEF IInv, worldVars
<1>1. mixed' \in BOOLEAN /\ swept' \in BOOLEAN /\ StoreIsNamed'
  BY RememberTells
<1>2. SessionTypeOK'
  BY <1>1, NoCallIsACall DEF SessionTypeOK, Stages
<1>3. /\ StageFitsCall' /\ DirtyCallIsFresh' /\ CommittedCallIsFresh'
      /\ RefIsThere' /\ ReadIsNamed'
  BY NoCallIsACall
     DEF StageFitsCall, DirtyCallIsFresh, CommittedCallIsFresh, RefIsThere,
         ReadIsNamed, Indexing, Loading
<1> QED
  BY <1>1, <1>2, <1>3

(* What a step inside a call keeps of the histories. *)
LEMMA HistoryIsKept ==
  ASSUME IInv, Remember, stage # "idle", UNCHANGED earlier
  PROVE  /\ mixed' \in BOOLEAN /\ swept' \in BOOLEAN /\ StoreIsNamed' /\ EarlierIsTold'
         /\ ~ mixed' => ~ mixed
         /\ ~ swept' => ~ swept
         /\ stage # "read" /\ ~ swept => ~ swept'
<1> USE DEF IInv
<1>1. /\ mixed' \in BOOLEAN /\ swept' \in BOOLEAN /\ StoreIsNamed'
      /\ ~ mixed' => ~ mixed
      /\ ~ swept' => ~ swept
      /\ stage # "read" /\ ~ swept => ~ swept'
  BY RememberTells
<1> QED
  BY <1>1 DEF EarlierIsTold, Tells

-------------------------------------------------------------------------------
(* ensure_indexed and the walk before it: what is looked at is kept. *)
LEMMA EnsureIInv ==
  ASSUME IInv, EndWalk \/ EnsureIndexed, Remember, quiet' = quiet
  PROVE  IInv'
<1> USE DEF IInv, Goto, worldVars, EnsureIndexed
<1>1. /\ stage \in {"walk", "ensure", "pointer"}
      /\ UNCHANGED <<gitHead, work, index, stored, earlier>>
  BY DEF EndWalk, ReadHead, IndexIsCurrent, IndexIsStale
<1>2. /\ mixed' \in BOOLEAN /\ swept' \in BOOLEAN /\ StoreIsNamed' /\ EarlierIsTold'
      /\ ~ mixed' => ~ mixed
      /\ ~ swept' => ~ swept
      /\ ~ swept => ~ swept'
  BY <1>1, HistoryIsKept
<1>3. call \in Calls /\ quiet' \in BOOLEAN
  BY DEF SessionTypeOK
<1>4. CASE EndWalk
  <2>1. /\ stage = "walk" /\ stage' = "ensure" /\ left = {} /\ UNCHANGED <<left, call>>
    BY <1>4 DEF EndWalk
  <2>2. AgreesBut(call.first, left) => call.first = work
    BY <2>1, <1>3, WalkIsDone DEF Calls
  <2>3. SessionTypeOK' /\ StageFitsCall'
    BY <1>1, <1>2, <1>3, <2>1 DEF SessionTypeOK, Stages, StageFitsCall, Indexing, Loading
  <2>4. DirtyCallIsFresh' /\ CommittedCallIsFresh' /\ RefIsThere' /\ ReadIsNamed'
    BY <1>1, <1>2, <1>3, <2>1, <2>2
       DEF DirtyCallIsFresh, CommittedCallIsFresh, RefIsThere, ReadIsNamed, StageFitsCall,
           Indexing, Loading
  <2> QED
    BY <1>2, <2>3, <2>4
<1>5. CASE ReadHead
  <2>1. call' = [call EXCEPT !.headTree = gitHead]
    BY <1>5 DEF ReadHead
  <2>2. stage = "ensure" /\ stage' = "pointer" /\ UNCHANGED left
    BY <1>5 DEF ReadHead
  <2>3. /\ call' \in Calls /\ call'.headTree = gitHead /\ call'.dirty = call.dirty
        /\ call'.base = call.base /\ call'.first = call.first
    BY <2>1, <1>3, TreesAreSnapshots DEF Calls, SessionTypeOK
  <2>4. SessionTypeOK' /\ StageFitsCall'
    BY <1>1, <1>2, <1>3, <2>2, <2>3
       DEF SessionTypeOK, Stages, StageFitsCall, Indexing, Loading
  <2>5. DirtyCallIsFresh' /\ CommittedCallIsFresh' /\ RefIsThere' /\ ReadIsNamed'
    BY <1>1, <1>2, <1>3, <2>2, <2>3
       DEF DirtyCallIsFresh, CommittedCallIsFresh, RefIsThere, ReadIsNamed,
           Indexing, Loading
  <2> QED
    BY <1>2, <2>4, <2>5
<1>6. CASE IndexIsCurrent
  <2>1. /\ stage = "pointer" /\ index = call.headTree /\ UNCHANGED call
        /\ \/ stage' = "rewalk" /\ left' = Files /\ call.dirty
           \/ /\ stage' = "load" /\ left' = left
              /\ call.dirty => Overlay(call.base, call.first) = {}
    BY <1>6 DEF IndexIsCurrent, GoOn
  <2>2. SessionTypeOK' /\ StageFitsCall'
    BY <1>1, <1>2, <1>3, <2>1 DEF SessionTypeOK, Stages, StageFitsCall, Indexing, Loading
  <2>3. DirtyCallIsFresh' /\ CommittedCallIsFresh' /\ RefIsThere' /\ ReadIsNamed'
    BY <1>1, <1>2, <1>3, <2>1
       DEF DirtyCallIsFresh, CommittedCallIsFresh, RefIsThere, ReadIsNamed, AgreesBut,
           Indexing, Loading
  <2> QED
    BY <1>2, <2>2, <2>3
<1>7. CASE IndexIsStale
  <2>1. stage = "pointer" /\ stage' = "resolve" /\ UNCHANGED <<left, call>>
    BY <1>7 DEF IndexIsStale
  <2>2. SessionTypeOK' /\ StageFitsCall'
    BY <1>1, <1>2, <1>3, <2>1 DEF SessionTypeOK, Stages, StageFitsCall, Indexing, Loading
  <2>3. DirtyCallIsFresh' /\ CommittedCallIsFresh' /\ RefIsThere' /\ ReadIsNamed'
    BY <1>1, <1>2, <1>3, <2>1
       DEF DirtyCallIsFresh, CommittedCallIsFresh, RefIsThere, ReadIsNamed,
           Indexing, Loading
  <2> QED
    BY <1>2, <2>2, <2>3
<1> QED
  BY <1>4, <1>5, <1>6, <1>7

-------------------------------------------------------------------------------
(* index_repo: the key, the files, the graph, the sweep and the pointer. *)
LEMMA IndexIInv ==
  ASSUME IInv, IndexRepo, Remember, quiet' = quiet
  PROVE  IInv'
<1> USE DEF IInv, Goto, worldVars, IndexRepo
<1>1. stage \in {"resolve"} \cup Indexing /\ UNCHANGED <<gitHead, work, earlier>>
  BY DEF ResolveKey, EnumerateTree, PutGraph, PruneGraphs, WritePointer, IndexFails,
         Indexing
<1>2. /\ mixed' \in BOOLEAN /\ swept' \in BOOLEAN /\ StoreIsNamed' /\ EarlierIsTold'
      /\ ~ mixed' => ~ mixed
      /\ ~ swept' => ~ swept
      /\ ~ swept => ~ swept'
  BY <1>1, HistoryIsKept DEF Indexing
<1>3. call \in Calls /\ quiet' \in BOOLEAN /\ quiet \in BOOLEAN
  BY DEF SessionTypeOK
<1>4. CASE ResolveKey
  <2>1. call' = [call EXCEPT !.key = TreeKey(gitHead)]
    BY <1>4 DEF ResolveKey
  <2>2. /\ stage = "resolve" /\ stage' = "enumerate" /\ UNCHANGED <<left, index, stored>>
    BY <1>4 DEF ResolveKey
  <2>3. TreeKey(gitHead) \in Keys /\ TreeKey(gitHead).files = gitHead /\ gitHead \in Trees
    BY TreesAreSnapshots DEF SessionTypeOK, TreeKey, Keys
  <2>4. /\ call' \in Calls /\ call'.key = TreeKey(gitHead) /\ call'.dirty = call.dirty
        /\ call'.base = call.base /\ call'.first = call.first
    BY <2>1, <2>3, <1>3 DEF Calls
  <2>5. SessionTypeOK' /\ StageFitsCall'
    BY <1>1, <1>2, <1>3, <2>2, <2>3, <2>4
       DEF SessionTypeOK, Stages, StageFitsCall, Indexing, Loading
  <2>6. DirtyCallIsFresh' /\ CommittedCallIsFresh' /\ RefIsThere' /\ ReadIsNamed'
    BY <1>1, <1>2, <1>3, <2>2, <2>4
       DEF DirtyCallIsFresh, CommittedCallIsFresh, RefIsThere, ReadIsNamed,
           Indexing, Loading
  <2> QED
    BY <1>2, <2>5, <2>6
<1>5. CASE EnumerateTree
  <2>1. call' = [call EXCEPT !.tree = gitHead]
    BY <1>5 DEF EnumerateTree
  <2>2. /\ stage = "enumerate" /\ stage' = "put" /\ UNCHANGED <<left, index, stored>>
    BY <1>5 DEF EnumerateTree
  <2>3. /\ call' \in Calls /\ call'.tree = gitHead /\ call'.key = call.key
        /\ call'.dirty = call.dirty /\ call'.base = call.base /\ call'.first = call.first
    BY <2>1, <1>3, TreesAreSnapshots DEF Calls, SessionTypeOK
  <2>4. SessionTypeOK' /\ StageFitsCall'
    BY <1>1, <1>2, <1>3, <2>2, <2>3
       DEF SessionTypeOK, Stages, StageFitsCall, Indexing, Loading
  <2>5. DirtyCallIsFresh' /\ CommittedCallIsFresh' /\ RefIsThere' /\ ReadIsNamed'
    BY <1>1, <1>2, <1>3, <2>2, <2>3
       DEF DirtyCallIsFresh, CommittedCallIsFresh, RefIsThere, ReadIsNamed,
           Indexing, Loading
  <2> QED
    BY <1>2, <2>4, <2>5
<1>6. CASE PutGraph \/ PruneGraphs
  <2>1. /\ \/ stage = "put" /\ stage' = "prune"
           \/ stage = "prune" /\ stage' = "publish"
        /\ UNCHANGED <<index, left, call>>
    BY <1>6 DEF PutGraph, PruneGraphs
  <2>2. stored' \in [Trees -> Trees \cup {Absent}]
    BY <1>6 DEF PutGraph, PruneGraphs, AllBut, SessionTypeOK, StageFitsCall, Indexing
  <2>3. SessionTypeOK' /\ StageFitsCall'
    BY <1>1, <1>2, <1>3, <2>1, <2>2
       DEF SessionTypeOK, Stages, StageFitsCall, Indexing, Loading
  <2>4. DirtyCallIsFresh' /\ CommittedCallIsFresh' /\ RefIsThere' /\ ReadIsNamed'
    BY <1>1, <1>2, <1>3, <2>1
       DEF DirtyCallIsFresh, CommittedCallIsFresh, RefIsThere, ReadIsNamed,
           Indexing, Loading
  <2> QED
    BY <1>2, <2>3, <2>4
<1>7. CASE WritePointer
  <2>1. /\ stage = "publish" /\ index' = call.key.files /\ UNCHANGED <<stored, call>>
        /\ \/ stage' = "rewalk" /\ left' = Files /\ call.dirty
           \/ /\ stage' = "load" /\ left' = left
              /\ call.dirty => Overlay(call.base, call.first) = {}
    BY <1>7 DEF WritePointer, GoOn
  <2>2. index' \in Trees
    BY <2>1 DEF StageFitsCall, Indexing
  <2>3. quiet /\ ~ mixed /\ ~ call.dirty => index' = gitHead
    BY <2>1 DEF CommittedCallIsFresh, Indexing, TreeKey
  <2>4. SessionTypeOK' /\ StageFitsCall'
    BY <1>1, <1>2, <1>3, <2>1, <2>2
       DEF SessionTypeOK, Stages, StageFitsCall, Indexing, Loading
  <2>5. DirtyCallIsFresh' /\ CommittedCallIsFresh' /\ RefIsThere' /\ ReadIsNamed'
    BY <1>1, <1>2, <1>3, <2>1, <2>3
       DEF DirtyCallIsFresh, CommittedCallIsFresh, RefIsThere, ReadIsNamed, AgreesBut,
           Indexing, Loading
  <2> QED
    BY <1>2, <2>4, <2>5
<1>8. CASE IndexFails
  BY <1>1, <1>2, <1>3, <1>8, EndIInv DEF IndexFails, Indexing
<1> QED
  BY <1>4, <1>5, <1>6, <1>7, <1>8

-------------------------------------------------------------------------------
(* load_current: the pointer, the ref, the graph. *)
LEMMA LoadIInv ==
  ASSUME IInv, LoadCurrent, Remember, quiet' = quiet
  PROVE  IInv'
<1> USE DEF IInv, Goto, worldVars, LoadCurrent
<1>1. stage \in Loading \ {"served"} /\ UNCHANGED <<gitHead, work, index, stored, left, earlier>>
  BY DEF ReadPointer, NoPointer, FindGraph, BeginRead, ReadNothing, EndRead, Rebuild,
         GiveUp, Miss, Loading
<1>2. /\ mixed' \in BOOLEAN /\ swept' \in BOOLEAN /\ StoreIsNamed' /\ EarlierIsTold'
      /\ ~ mixed' => ~ mixed
      /\ ~ swept' => ~ swept
      /\ stage # "read" /\ ~ swept => ~ swept'
  BY <1>1, HistoryIsKept DEF Loading
<1>3. call \in Calls /\ quiet' \in BOOLEAN /\ quiet \in BOOLEAN
  BY DEF SessionTypeOK
<1>4. CASE ReadPointer
  <2>1. call' = [call EXCEPT !.key = TreeKey(index)]
    BY <1>4 DEF ReadPointer
  <2>2. stage = "load" /\ stage' = "graphFor" /\ index \in Trees
    BY <1>4 DEF ReadPointer, SessionTypeOK
  <2>3. TreeKey(index) \in Keys /\ TreeKey(index).files = index
    BY <2>2, TreesAreSnapshots DEF TreeKey, Keys
  <2>4. /\ call' \in Calls /\ call'.key = TreeKey(index) /\ call'.dirty = call.dirty
        /\ call'.base = call.base /\ call'.first = call.first
    BY <2>1, <2>3, <1>3 DEF Calls
  <2>5. SessionTypeOK' /\ StageFitsCall'
    BY <1>1, <1>2, <1>3, <2>2, <2>3, <2>4
       DEF SessionTypeOK, Stages, StageFitsCall, Indexing, Loading
  <2>6. DirtyCallIsFresh' /\ CommittedCallIsFresh' /\ RefIsThere' /\ ReadIsNamed'
    BY <1>1, <1>2, <1>3, <2>2, <2>4
       DEF DirtyCallIsFresh, CommittedCallIsFresh, RefIsThere, ReadIsNamed,
           Indexing, Loading
  <2> QED
    BY <1>2, <2>5, <2>6
<1>5. CASE FindGraph
  <2>1. /\ stage = "graphFor" /\ stage' = "read" /\ stored[call.key.files] # Absent
        /\ UNCHANGED call
    BY <1>5 DEF FindGraph
  <2>2. SessionTypeOK' /\ StageFitsCall'
    BY <1>1, <1>2, <1>3, <2>1 DEF SessionTypeOK, Stages, StageFitsCall, Indexing, Loading
  <2>3. DirtyCallIsFresh' /\ CommittedCallIsFresh' /\ RefIsThere' /\ ReadIsNamed'
    BY <1>1, <1>2, <1>3, <2>1
       DEF DirtyCallIsFresh, CommittedCallIsFresh, RefIsThere, ReadIsNamed,
           Indexing, Loading
  <2> QED
    BY <1>2, <2>2, <2>3
<1>6. CASE BeginRead
  <2> DEFINE g == stored[call.key.files]
  <2>1. call' = [call EXCEPT !.graph = g, !.lost = FALSE]
    BY <1>6 DEF BeginRead
  <2>2. /\ stage = "read" /\ stage' = "reading" /\ g # Absent
        /\ call.key.files \in Trees
    BY <1>6 DEF BeginRead, StageFitsCall, Loading, Indexing
  <2>3. g \in Trees /\ g \in Snapshots /\ (~ mixed => g = call.key.files)
    BY <2>2, TreesAreSnapshots DEF SessionTypeOK, StoreIsNamed
  <2>4. ~ swept => ~ swept'
    BY <1>1, <2>2, RememberTells
  <2> HIDE DEF g
  <2>5. /\ call' \in Calls /\ call'.graph = g /\ call'.key = call.key
        /\ call'.dirty = call.dirty /\ call'.base = call.base /\ call'.first = call.first
    BY <2>1, <2>3, <1>3 DEF Calls
  <2>6. SessionTypeOK' /\ StageFitsCall'
    BY <1>1, <1>2, <1>3, <2>2, <2>5
       DEF SessionTypeOK, Stages, StageFitsCall, Indexing, Loading
  <2>7. DirtyCallIsFresh' /\ CommittedCallIsFresh' /\ RefIsThere' /\ ReadIsNamed'
    BY <1>1, <1>2, <1>3, <2>2, <2>3, <2>4, <2>5
       DEF DirtyCallIsFresh, CommittedCallIsFresh, RefIsThere, ReadIsNamed,
           Indexing, Loading
  <2> QED
    BY <1>2, <2>6, <2>7
<1>7. CASE ReadNothing
  <2>1. call' = [call EXCEPT !.graph = NoFiles]
    BY <1>7 DEF ReadNothing
  <2>2. stage = "read" /\ stage' = "served" /\ stored[call.key.files] = Absent
    BY <1>7 DEF ReadNothing
  <2>3. swept' /\ ~ quiet
    BY <1>1, <2>2, RememberTells DEF RefIsThere
  <2>4. /\ call' \in Calls /\ call'.key = call.key
        /\ call'.dirty = call.dirty /\ call'.base = call.base /\ call'.first = call.first
    BY <2>1, <1>3, NoCallIsACall DEF Calls
  <2>5. SessionTypeOK' /\ StageFitsCall'
    BY <1>1, <1>2, <1>3, <2>2, <2>4
       DEF SessionTypeOK, Stages, StageFitsCall, Indexing, Loading
  <2>6. DirtyCallIsFresh' /\ CommittedCallIsFresh' /\ RefIsThere' /\ ReadIsNamed'
    BY <2>2, <2>3 DEF DirtyCallIsFresh, CommittedCallIsFresh, RefIsThere, ReadIsNamed
  <2> QED
    BY <1>2, <2>5, <2>6
<1>8. CASE EndRead
  <2>1. stage = "reading" /\ stage' = "served" /\ UNCHANGED call
    BY <1>8 DEF EndRead
  <2>2. SessionTypeOK' /\ StageFitsCall'
    BY <1>1, <1>2, <1>3, <2>1 DEF SessionTypeOK, Stages, StageFitsCall, Indexing, Loading
  <2>3. DirtyCallIsFresh' /\ CommittedCallIsFresh' /\ RefIsThere' /\ ReadIsNamed'
    BY <1>1, <1>2, <1>3, <2>1
       DEF DirtyCallIsFresh, CommittedCallIsFresh, RefIsThere, ReadIsNamed,
           Indexing, Loading
  <2> QED
    BY <1>2, <2>2, <2>3
<1>9. CASE Rebuild
  <2>1. call' = [call EXCEPT !.rebuild = FALSE]
    BY <1>9 DEF Rebuild
  <2>2. stage \in {"graphFor", "reading"} /\ stage' = "resolve"
    BY <1>9 DEF Rebuild, Miss
  <2>3. /\ call' \in Calls /\ call'.dirty = call.dirty
        /\ call'.base = call.base /\ call'.first = call.first
    BY <2>1, <1>3 DEF Calls
  <2>4. SessionTypeOK' /\ StageFitsCall'
    BY <1>1, <1>2, <1>3, <2>2, <2>3
       DEF SessionTypeOK, Stages, StageFitsCall, Indexing, Loading
  <2>5. DirtyCallIsFresh' /\ CommittedCallIsFresh' /\ RefIsThere' /\ ReadIsNamed'
    BY <1>1, <1>2, <1>3, <2>2, <2>3
       DEF DirtyCallIsFresh, CommittedCallIsFresh, RefIsThere, ReadIsNamed,
           Indexing, Loading
  <2> QED
    BY <1>2, <2>4, <2>5
<1>10. CASE NoPointer \/ GiveUp
  BY <1>1, <1>2, <1>3, <1>10, EndIInv DEF NoPointer, GiveUp, Loading
<1> QED
  BY <1>4, <1>5, <1>6, <1>7, <1>8, <1>9, <1>10

-------------------------------------------------------------------------------
(* The three walks: each gathers what the disk holds. *)
LEMMA WalkIInv ==
  ASSUME IInv, WalkForOverlay \/ WalkForIndex \/ WalkForCount, Remember, quiet' = quiet
  PROVE  IInv'
<1> USE DEF IInv, worldVars
<1>1. /\ stage \in {"walk", "rewalk", "count"} /\ stage' = stage
      /\ UNCHANGED <<gitHead, work, index, stored, earlier>>
  BY DEF WalkForOverlay, WalkForIndex, WalkForCount, Walk
<1>2. /\ mixed' \in BOOLEAN /\ swept' \in BOOLEAN /\ StoreIsNamed' /\ EarlierIsTold'
      /\ ~ mixed' => ~ mixed
      /\ ~ swept => ~ swept'
  BY <1>1, HistoryIsKept
<1>3. call \in Calls /\ quiet' \in BOOLEAN /\ quiet \in BOOLEAN
  BY DEF SessionTypeOK
<1>4. /\ call' \in Calls /\ left' \subseteq Files
      /\ call'.dirty = call.dirty /\ call'.base = call.base
      /\ stage = "walk" =>
           (AgreesBut(call.first, left) => AgreesBut(call'.first, left'))
      /\ stage # "walk" => call'.first = call.first
      /\ stage = "rewalk" =>
           (AgreesBut(call.graph, left) => AgreesBut(call'.graph, left'))
      /\ stage = "count" =>
           /\ AgreesBut(call.last, left) => AgreesBut(call'.last, left')
           /\ call'.graph = call.graph
  <2>1. CASE WalkForOverlay
    <3>1. PICK f \in left :
            /\ call' = [call EXCEPT !.first = [call.first EXCEPT ![f] = work[f]]]
            /\ left' = left \ {f}
      BY <2>1, <1>3 DEF WalkForOverlay, Walk, Calls
    <3> QED
      BY <2>1, <3>1, <1>3, WalkOneFile DEF Calls, WalkForOverlay, Walk, SessionTypeOK
  <2>2. CASE WalkForIndex
    <3>1. PICK f \in left :
            /\ call' = [call EXCEPT !.graph = [call.graph EXCEPT ![f] = work[f]]]
            /\ left' = left \ {f}
      BY <2>2, <1>3 DEF WalkForIndex, Walk, Calls
    <3> QED
      BY <2>2, <3>1, <1>3, WalkOneFile DEF Calls, WalkForIndex, Walk, SessionTypeOK
  <2>3. CASE WalkForCount
    <3>1. PICK f \in left :
            /\ call' = [call EXCEPT !.last = [call.last EXCEPT ![f] = work[f]]]
            /\ left' = left \ {f}
      BY <2>3, <1>3 DEF WalkForCount, Walk, Calls
    <3> QED
      BY <2>3, <3>1, <1>3, WalkOneFile DEF Calls, WalkForCount, Walk, SessionTypeOK
  <2> QED
    BY <2>1, <2>2, <2>3
<1>5. SessionTypeOK' /\ StageFitsCall'
  BY <1>1, <1>2, <1>3, <1>4
     DEF SessionTypeOK, Stages, StageFitsCall, Indexing, Loading
<1>6. DirtyCallIsFresh'
  BY <1>1, <1>2, <1>3, <1>4 DEF DirtyCallIsFresh, AgreesBut
<1>7. CommittedCallIsFresh' /\ RefIsThere' /\ ReadIsNamed'
  BY <1>1, <1>2, <1>3, <1>4
     DEF CommittedCallIsFresh, RefIsThere, ReadIsNamed, StageFitsCall, Indexing, Loading
<1> QED
  BY <1>2, <1>5, <1>6, <1>7

(* From the graph to the answer. *)
LEMMA ServeIInv ==
  ASSUME IInv, Remember, quiet' = quiet,
         ServeTree \/ ResolveHead \/ ServeCommitted \/ IndexOverlay
           \/ EndIndexOverlay \/ EndCount
  PROVE  IInv'
<1> USE DEF IInv, Goto, worldVars
<1>1. /\ stage \in {"served", "head", "rewalk", "count"}
      /\ UNCHANGED <<gitHead, work, index, stored, earlier>>
  BY DEF ServeTree, ResolveHead, ServeCommitted, IndexOverlay, EndIndexOverlay, EndCount
<1>2. /\ mixed' \in BOOLEAN /\ swept' \in BOOLEAN /\ StoreIsNamed' /\ EarlierIsTold'
      /\ ~ mixed' => ~ mixed
      /\ ~ swept' => ~ swept
      /\ ~ swept => ~ swept'
  BY <1>1, HistoryIsKept
<1>3. call \in Calls /\ quiet' \in BOOLEAN /\ quiet \in BOOLEAN
  BY DEF SessionTypeOK
<1>4. CASE ServeTree
  <2>1. /\ stage = "served" /\ stage' = "head" /\ ~ call.dirty
        /\ UNCHANGED <<left, call>>
    BY <1>4 DEF ServeTree
  <2>2. quiet /\ ~ mixed => call.key.files = gitHead
    BY <2>1 DEF CommittedCallIsFresh, Indexing, Loading, TreeKey
  <2>3. SessionTypeOK' /\ StageFitsCall'
    BY <1>1, <1>2, <1>3, <2>1 DEF SessionTypeOK, Stages, StageFitsCall, Indexing, Loading
  <2>4. DirtyCallIsFresh' /\ CommittedCallIsFresh' /\ RefIsThere' /\ ReadIsNamed'
    BY <1>1, <1>2, <1>3, <2>1, <2>2
       DEF DirtyCallIsFresh, CommittedCallIsFresh, RefIsThere, ReadIsNamed, StageFitsCall,
           Indexing, Loading
  <2> QED
    BY <1>2, <2>3, <2>4
<1>5. CASE ResolveHead
  <2>1. call' = [call EXCEPT !.headTree = gitHead]
    BY <1>5 DEF ResolveHead
  <2>2. stage = "head" /\ stage' = "answer" /\ UNCHANGED left
    BY <1>5 DEF ResolveHead
  <2>3. /\ call' \in Calls /\ call'.dirty = call.dirty
        /\ call'.graph = call.graph /\ call'.key = call.key
    BY <2>1, <1>3, TreesAreSnapshots DEF Calls, SessionTypeOK
  <2>4. ~ call.dirty
    BY <2>2 DEF StageFitsCall
  <2>5. SessionTypeOK' /\ StageFitsCall'
    BY <1>1, <1>2, <1>3, <2>2, <2>3
       DEF SessionTypeOK, Stages, StageFitsCall, Indexing, Loading
  <2>6. DirtyCallIsFresh' /\ CommittedCallIsFresh' /\ RefIsThere' /\ ReadIsNamed'
    BY <1>1, <1>2, <1>3, <2>2, <2>3, <2>4
       DEF DirtyCallIsFresh, CommittedCallIsFresh, RefIsThere, ReadIsNamed,
           Indexing, Loading
  <2> QED
    BY <1>2, <2>5, <2>6
<1>6. CASE ServeCommitted
  <2>1. /\ stage = "served" /\ stage' = "count" /\ call.dirty
        /\ call.key = TreeKey(call.base) /\ left' = Files /\ UNCHANGED call
    BY <1>6 DEF ServeCommitted
  <2>2. call.key.files = call.base /\ call.first = call.base
    BY <2>1, <1>3, EmptyOverlay DEF StageFitsCall, Loading, TreeKey, Calls
  <2>3. quiet /\ ~ mixed => call.graph = work
    BY <2>1, <2>2 DEF DirtyCallIsFresh, ReadIsNamed, RefIsThere
  <2>4. SessionTypeOK' /\ StageFitsCall'
    BY <1>1, <1>2, <1>3, <2>1 DEF SessionTypeOK, Stages, StageFitsCall, Indexing, Loading
  <2>5. DirtyCallIsFresh' /\ CommittedCallIsFresh' /\ RefIsThere' /\ ReadIsNamed'
    BY <1>1, <1>2, <1>3, <2>1, <2>3
       DEF DirtyCallIsFresh, CommittedCallIsFresh, RefIsThere, ReadIsNamed, AgreesBut,
           Indexing, Loading
  <2> QED
    BY <1>2, <2>4, <2>5
<1>7. CASE IndexOverlay
  <2>1. /\ stage = "served" /\ stage' = "rewalk" /\ call.dirty
        /\ left' = Files /\ UNCHANGED call
    BY <1>7 DEF IndexOverlay
  <2>2. SessionTypeOK' /\ StageFitsCall'
    BY <1>1, <1>2, <1>3, <2>1 DEF SessionTypeOK, Stages, StageFitsCall, Indexing, Loading
  <2>3. DirtyCallIsFresh' /\ CommittedCallIsFresh' /\ RefIsThere' /\ ReadIsNamed'
    BY <1>1, <1>2, <1>3, <2>1
       DEF DirtyCallIsFresh, CommittedCallIsFresh, RefIsThere, ReadIsNamed, AgreesBut,
           Indexing, Loading
  <2> QED
    BY <1>2, <2>2, <2>3
<1>8. CASE EndIndexOverlay
  <2>1. call' = [call EXCEPT !.key = WorkdirKey(call.graph)]
    BY <1>8 DEF EndIndexOverlay
  <2>2. stage = "rewalk" /\ stage' = "count" /\ left = {} /\ left' = Files
    BY <1>8 DEF EndIndexOverlay
  <2>3. /\ call' \in Calls /\ call'.dirty = call.dirty /\ call'.graph = call.graph
        /\ call'.base = call.base /\ call'.first = call.first
    BY <2>1, <1>3 DEF Calls, WorkdirKey, Keys
  <2>4. AgreesBut(call.graph, left) => call.graph = work
    BY <2>2, <1>3, WalkIsDone DEF Calls
  <2>5. SessionTypeOK' /\ StageFitsCall'
    BY <1>1, <1>2, <1>3, <2>2, <2>3
       DEF SessionTypeOK, Stages, StageFitsCall, Indexing, Loading
  <2>6. DirtyCallIsFresh' /\ CommittedCallIsFresh' /\ RefIsThere' /\ ReadIsNamed'
    BY <1>1, <1>2, <1>3, <2>2, <2>3, <2>4
       DEF DirtyCallIsFresh, CommittedCallIsFresh, RefIsThere, ReadIsNamed, AgreesBut,
           Indexing, Loading
  <2> QED
    BY <1>2, <2>5, <2>6
<1>9. CASE EndCount
  <2>1. call' = [call EXCEPT !.headTree = call.base]
    BY <1>9 DEF EndCount
  <2>2. stage = "count" /\ stage' = "answer" /\ left = {} /\ UNCHANGED left
    BY <1>9 DEF EndCount
  <2>3. /\ call' \in Calls /\ call'.dirty = call.dirty /\ call'.graph = call.graph
        /\ call'.base = call.base /\ call'.first = call.first
        /\ call'.last = call.last /\ call'.headTree = call.base
    BY <2>1, <1>3 DEF Calls
  <2>4. AgreesBut(call.last, left) => call.last = work
    BY <2>2, <1>3, WalkIsDone DEF Calls
  <2>5. call.dirty
    BY <2>2 DEF StageFitsCall
  <2>6. SessionTypeOK' /\ StageFitsCall'
    BY <1>1, <1>2, <1>3, <2>2, <2>3
       DEF SessionTypeOK, Stages, StageFitsCall, Indexing, Loading
  <2>7. DirtyCallIsFresh' /\ CommittedCallIsFresh' /\ RefIsThere' /\ ReadIsNamed'
    BY <1>1, <1>2, <1>3, <2>2, <2>3, <2>4, <2>5
       DEF DirtyCallIsFresh, CommittedCallIsFresh, RefIsThere, ReadIsNamed,
           Indexing, Loading
  <2> QED
    BY <1>2, <2>6, <2>7
<1> QED
  BY <1>4, <1>5, <1>6, <1>7, <1>8, <1>9

(* The answer is told by its version. *)
LEMMA AnswerIInv ==
  ASSUME IInv, Answer, Remember, quiet' \in BOOLEAN
  PROVE  IInv'
<1> USE DEF Goto
<1>1. /\ stage = "answer" /\ stage' = "idle" /\ call' = NoCall
      /\ UNCHANGED <<worldVars, left>>
      /\ earlier' \in {earlier, [given |-> TRUE,
                                 sure |-> (quiet \/ ~ call.dirty) /\ ~ swept,
                                 version |-> Version, graph |-> call.graph]}
  BY DEF Answer
<1>2. (~ mixed' => ~ mixed) /\ call \in Calls
  BY RememberTells DEF IInv, SessionTypeOK
<1>3. EarlierIsTold'
  <2>1. CASE earlier' = earlier
    BY <2>1, <1>2 DEF IInv, EarlierIsTold, Tells
  <2>2. CASE earlier' # earlier /\ (quiet \/ ~ call.dirty) /\ ReadAsStored
    <3>1. earlier'.version = Version /\ earlier'.graph = call.graph
      BY <1>1, <2>2
    <3>2. Tells(Version, call.graph) /\ call.graph \in Snapshots
      BY <1>1, <1>2, <2>2, AnswerIsTold DEF Calls
    <3> QED
      BY <3>1, <3>2 DEF EarlierIsTold, Tells
  <2>3. CASE earlier' # earlier /\ ~ ((quiet \/ ~ call.dirty) /\ ~ swept)
    <3>1. earlier'.sure = ((quiet \/ ~ call.dirty) /\ ~ swept)
      BY <1>1, <2>3
    <3> QED
      BY <3>1, <2>3 DEF EarlierIsTold
  <2>4. CASE mixed
    BY <2>4, <1>2 DEF EarlierIsTold
  <2> QED
    BY <2>1, <2>2, <2>3, <2>4 DEF ReadAsStored
<1> QED
  BY <1>1, <1>3, EndIInv

-------------------------------------------------------------------------------
(* Whatever else happens, an undisturbed call is no longer one. *)
LEMMA DisturbIInv ==
  ASSUME IInv, Disturb, Remember
  PROVE  IInv'
<1> USE DEF IInv
<1>1. ~ quiet' /\ quiet' \in BOOLEAN /\ UNCHANGED <<stage, left, earlier>>
  BY DEF Disturb
<1>2. /\ gitHead' \in Trees /\ work' \in Snapshots /\ index' \in Trees \cup {Absent}
      /\ stored' \in [Trees -> Trees \cup {Absent}]
  <2>1. CASE Edit
    BY <2>1 DEF Edit, SessionTypeOK, Snapshots
  <2>2. CASE MoveHead \/ OtherPoint
    BY <2>2 DEF MoveHead, OtherPoint, SessionTypeOK
  <2>3. CASE OtherPut \/ OtherPrune
    BY <2>3 DEF OtherPut, OtherPrune, AllBut, SessionTypeOK
  <2> QED
    BY <2>1, <2>2, <2>3 DEF Disturb
<1>3. /\ call' \in Calls /\ call'.dirty = call.dirty /\ call'.base = call.base
      /\ call'.first = call.first /\ call'.key = call.key /\ call'.tree = call.tree
      /\ call'.graph = call.graph
  <2>1. CASE call' = call
    BY <2>1 DEF SessionTypeOK
  <2>2. CASE \E ks : Lose(ks)
    <3>1. PICK l \in BOOLEAN : call' = [call EXCEPT !.lost = l]
      BY <2>2 DEF Lose, SessionTypeOK, Calls
    <3> QED
      BY <3>1 DEF SessionTypeOK, Calls
  <2> QED
    BY <2>1, <2>2 DEF Disturb, Edit, MoveHead, OtherPoint, OtherPut, OtherPrune
<1>4. /\ mixed' \in BOOLEAN /\ swept' \in BOOLEAN /\ StoreIsNamed'
      /\ ~ mixed' => ~ mixed
      /\ stage # "idle" /\ ~ swept' => ~ swept
      /\ stage = "read" /\ ~ swept' => stored'[call.key.files] # Absent
  BY RememberTells
<1>5. SessionTypeOK' /\ StageFitsCall'
  BY <1>1, <1>2, <1>3, <1>4 DEF SessionTypeOK, StageFitsCall
<1>6. DirtyCallIsFresh' /\ CommittedCallIsFresh' /\ RefIsThere'
  BY <1>1, <1>3, <1>4 DEF DirtyCallIsFresh, CommittedCallIsFresh, RefIsThere
<1>7. ReadIsNamed' /\ EarlierIsTold'
  BY <1>1, <1>3, <1>4 DEF ReadIsNamed, EarlierIsTold, Tells
<1> QED
  BY <1>4, <1>5, <1>6, <1>7

(* Every step is one of these. *)
LEMMA StepIInv == IInv /\ [SessionNext]_sessionVars => IInv'
<1> SUFFICES ASSUME IInv, [SessionNext]_sessionVars PROVE IInv'
  OBVIOUS
<1>1. CASE UNCHANGED sessionVars
  BY <1>1 DEF sessionVars, worldVars, IInv, SessionTypeOK, StageFitsCall,
              DirtyCallIsFresh, AgreesBut, CommittedCallIsFresh, StoreIsNamed,
              RefIsThere, ReadIsNamed, EarlierIsTold
<1>2. CASE Disturb /\ Remember
  BY <1>2, DisturbIInv
<1>3. CASE Acquire /\ Remember /\ quiet' = (stage = "idle" \/ quiet)
  <2>1. quiet' \in BOOLEAN /\ (stage # "idle" => quiet' = quiet)
    BY <1>3 DEF IInv, SessionTypeOK
  <2>2. CASE BeginCommitted \/ BeginDirty
    BY <1>3, <2>1, <2>2, BeginIInv
  <2>3. CASE EndWalk \/ EnsureIndexed
    BY <1>3, <2>1, <2>3, EnsureIInv
       DEF EndWalk, EnsureIndexed, ReadHead, IndexIsCurrent, IndexIsStale, Goto
  <2>4. CASE IndexRepo
    BY <1>3, <2>1, <2>4, IndexIInv
       DEF IndexRepo, ResolveKey, EnumerateTree, PutGraph, PruneGraphs, WritePointer,
           IndexFails, Goto
  <2>5. CASE LoadCurrent
    BY <1>3, <2>1, <2>5, LoadIInv
       DEF LoadCurrent, ReadPointer, NoPointer, FindGraph, BeginRead, ReadNothing,
           EndRead, Rebuild, GiveUp, Miss, Goto
  <2>6. CASE WalkForOverlay \/ WalkForIndex \/ WalkForCount
    BY <1>3, <2>1, <2>6, WalkIInv DEF WalkForOverlay, WalkForIndex, WalkForCount, Walk
  <2>7. CASE ServeTree \/ ResolveHead \/ ServeCommitted \/ IndexOverlay
               \/ EndIndexOverlay \/ EndCount
    BY <1>3, <2>1, <2>7, ServeIInv
       DEF ServeTree, ResolveHead, ServeCommitted, IndexOverlay, EndIndexOverlay,
           EndCount, Goto
  <2>8. CASE Answer
    BY <1>3, <2>1, <2>8, AnswerIInv
  <2> QED
    BY <1>3, <2>2, <2>3, <2>4, <2>5, <2>6, <2>7, <2>8 DEF Acquire
<1> QED
  BY <1>1, <1>2, <1>3 DEF SessionNext

LEMMA SpecIInv == SessionSpec => []IInv
  BY InitIInv, StepIInv, PTL DEF SessionSpec

-------------------------------------------------------------------------------
(* The types hold of every reachable state of acquire. *)
THEOREM SpecTypeOK == SessionSpec => []SessionTypeOK
<1>1. IInv => SessionTypeOK
  BY DEF IInv
<1> QED
  BY <1>1, SpecIInv, PTL

(* acquire, undisturbed, answers from the tree of HEAD or from the working *)
(* directory as it is, whatever pointer and graphs it found, in as many    *)
(* steps and over as many files as it takes.                               *)
THEOREM SpecAnswersAsAsked == SessionSpec => []UndisturbedAnswersAsAsked
<1>1. IInv => UndisturbedAnswersAsAsked
  BY DEF IInv, SessionTypeOK, DirtyCallIsFresh, CommittedCallIsFresh,
         UndisturbedAnswersAsAsked
<1> QED
  BY <1>1, SpecIInv, PTL

(* graph_version names one graph. *)
THEOREM SpecVersionNamesGraph == SessionSpec => []VersionNamesGraph
<1>1. ASSUME IInv PROVE VersionNamesGraph
  <2>1. SUFFICES ASSUME stage = "answer", earlier.given, earlier.sure, ReadAsStored,
                        quiet \/ ~ call.dirty, earlier.version = Version
                 PROVE  earlier.graph = call.graph
    BY DEF VersionNamesGraph
  <2>2. PICK b \in Snapshots : Version = <<b, Overlay(b, earlier.graph)>>
    BY <1>1, <2>1 DEF IInv, EarlierIsTold, Tells, ReadAsStored
  <2>3. PICK c \in Snapshots : Version = <<c, Overlay(c, call.graph)>>
    BY <1>1, <2>1, AnswerIsTold DEF Tells
  <2>4. b = c /\ Overlay(b, earlier.graph) = Overlay(b, call.graph)
    BY <2>2, <2>3
  <2>5. earlier.graph \in Snapshots /\ call.graph \in Snapshots
    BY <1>1, <2>1 DEF IInv, EarlierIsTold, ReadAsStored, SessionTypeOK, Calls
  <2> QED
    BY <2>4, <2>5, OverlayTells
<1> QED
  BY <1>1, SpecIInv, PTL

-------------------------------------------------------------------------------
(* dirty_file_count is of the paths git would report: none of them, none.  *)
LEMMA CountOfDirty ==
  ASSUME NEW b \in Snapshots, NEW w \in Snapshots
  PROVE  /\ DirtyFiles(b, w) \in Nat
         /\ Overlay(b, w) = {} => DirtyFiles(b, w) = 0
<1> DEFINE D == {f \in Files : CountsAsDirty(b, w, f)}
<1>1. IsFiniteSet(D)
  BY FilesAssumption, FS_Subset
<1>2. Cardinality(D) \in Nat
  BY <1>1, FS_CardinalityType
<1>3. ASSUME Overlay(b, w) = {} PROVE Cardinality(D) = 0
  <2>1. w = b
    BY <1>3, EmptyOverlay
  <2>2. D = {}
    BY <2>1 DEF CountsAsDirty
  <2> QED
    BY <2>2, FS_EmptySet
<1> QED
  BY <1>2, <1>3 DEF DirtyFiles

(* The freshness envelope of acquire's answer has the right verdict. *)
THEOREM SpecVerdictIsRight == SessionSpec => []VerdictIsRight
<1>1. ASSUME IInv PROVE VerdictIsRight
  <2>0. SUFFICES ASSUME stage = "answer"
                 PROVE  IF call.dirty
                        THEN quiet /\ ~ mixed =>
                          /\ Verdict(Envelope) = "current" => call.graph = gitHead
                          /\ Verdict(Envelope) = "stale" <=> DirtyFiles(gitHead, work) > 0
                          /\ call.graph = gitHead => Verdict(Envelope) = "current"
                        ELSE ReadAsStored /\ Envelope.matches = "yes" =>
                               call.graph = call.headTree
    BY DEF VerdictIsRight
  <2>1. CASE ~ call.dirty /\ ~ ReadAsStored
    BY <2>1
  <2>2. CASE ~ call.dirty /\ ReadAsStored
    <3>1. Envelope = FreshFor(TreeKey(call.graph), call.headTree, {})
      BY <1>1, <2>0, <2>2 DEF IInv, ReadIsNamed, ReadAsStored, Envelope, Dirty
    <3>2. Envelope.matches = "yes" => TreeKey(call.graph) = TreeKey(call.headTree)
      BY <3>1 DEF FreshFor, Build
    <3> QED
      BY <3>2, <2>2 DEF TreeKey
  <2>3. CASE call.dirty /\ ~ (quiet /\ ~ mixed)
    BY <2>3
  <2>4. CASE call.dirty /\ quiet /\ ~ mixed
    <3> DEFINE n == DirtyFiles(gitHead, work)
               lines == Overlay(gitHead, work)
               matches == MatchesHead(lines, {n})
               indexed == IF call.key.of = "workdir" /\ matches # "yes"
                          THEN call.key ELSE TreeKey(gitHead)
    <3>1. /\ call.base = gitHead /\ call.headTree = gitHead
          /\ call.first = work /\ call.last = work /\ call.graph = work
      BY <1>1, <2>0, <2>4 DEF IInv, DirtyCallIsFresh
    <3>2. gitHead \in Snapshots /\ work \in Snapshots
      BY <1>1, TreesAreSnapshots DEF IInv, SessionTypeOK
    <3>3. n \in Nat /\ (lines = {} => n = 0) /\ (lines = {} <=> work = gitHead)
      BY <3>2, CountOfDirty, EmptyOverlay
    <3>4. Envelope = IF matches = "null" THEN Indeterminate(indexed, gitHead, {n})
                     ELSE FreshFor(indexed, gitHead, {n})
      BY <2>4, <3>1 DEF Envelope, Dirty
    <3> HIDE DEF n, lines
    <3>5. CASE lines = {}
      <4>1. matches = "yes" /\ indexed = TreeKey(gitHead)
        BY <3>5 DEF MatchesHead
      <4>2. Envelope = Build(TreeKey(gitHead), gitHead, "yes", {0})
        BY <3>3, <3>4, <3>5, <4>1 DEF FreshFor
      <4>3. ~ \E k \in {0} : k > 0
        OBVIOUS
      <4>4. ~ Envelope.stale /\ Envelope.matches = "yes" /\ Envelope.dirty = {0}
        BY <4>2, <4>3, Zenon DEF Build
      <4>5. Verdict(Envelope) = "current"
        BY <4>4 DEF Verdict
      <4> QED
        BY <2>4, <3>1, <3>3, <3>5, <4>5 DEF n
    <3>6. CASE lines # {} /\ n > 0
      <4>1. matches = "no"
        BY <3>6 DEF MatchesHead
      <4>2. PICK m : Envelope = Build(indexed, gitHead, m, {n})
        BY <3>4, <4>1 DEF FreshFor
      <4>3. Verdict(Envelope) = "stale"
        BY <4>2, <3>6 DEF Build, Verdict
      <4> QED
        BY <2>4, <3>1, <3>3, <3>6, <4>3 DEF n
    <3>7. CASE lines # {} /\ ~ (n > 0)
      <4>1. matches = "null"
        BY <3>7 DEF MatchesHead
      <4>2. Envelope = Build(indexed, gitHead, "null", {n})
        BY <3>4, <4>1 DEF Indeterminate
      <4>3. Verdict(Envelope) = "unknown"
        BY <4>2, <3>7 DEF Build, Verdict
      <4> QED
        BY <2>4, <3>1, <3>3, <3>7, <4>3 DEF n
    <3> QED
      BY <3>3, <3>5, <3>6, <3>7
  <2> QED
    BY <2>1, <2>2, <2>3, <2>4
<1> QED
  BY <1>1, SpecIInv, PTL
===============================================================================
