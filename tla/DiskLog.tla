------------------------------- MODULE DiskLog -------------------------------
(***************************************************************************)
(* The session store on disk (store/disk-store.ts): one append-only file   *)
(* of JSON lines per address (a shard), one sequence over all of them, and *)
(* a state.json that is read, changed and replaced.                        *)
(*                                                                         *)
(* A DiskSessionStore keeps its last sequence in memory and serializes its *)
(* own appends and its own state writes.  The repository makes a new one   *)
(* at every open(), so that a managed server in one process has a worker's *)
(* store open for as long as it runs a session and one more for the length *)
(* of every accepted input (work-memory.ts append).  Both write the same   *)
(* files.                                                                  *)
(*                                                                         *)
(* A file is a sequence of pieces: what each appendFile left.  A write     *)
(* that a crash cut short leaves a piece without its newline, or without   *)
(* the end of its record; what is appended next continues the same line.   *)
(***************************************************************************)
EXTENDS Integers, Sequences, FiniteSets, FiniteSetsExt

CONSTANTS
    Scenes,        \* the situations to run: see Scene in DiskLogMC
    MaxRecords     \* records appended

NoIndex == [seq |-> 0, off |-> 0]
NoPut == [key |-> "none"]
Main == "main"     \* the shard of the root address, and of the inbox

VARIABLES
    scene,
    file,          \* shard -> its pieces
    state,         \* state.json: index per shard, the inbox cursor, the title
    old,           \* the log's stamped wire version is an old one
    hs,            \* store -> what it holds in memory
    issued,        \* records whose append was called
    acked,         \* records whose append has returned
    dealt,         \* inbox records the worker has read and dealt with
    crashes

vars == <<scene, file, state, old, hs, issued, acked, dealt, crashes>>

Stores == scene.stores
Alone == Cardinality(Stores) = 1
Shards == scene.shards

-----------------------------------------------------------------------------
(* Files.                                                                  *)

(* A record and its newline, at byte offset off; a rewrite changes sizes.  *)
Piece(off, seq, id, cp) ==
    [off |-> off, seq |-> seq, id |-> id, cp |-> cp, input |-> FALSE, size |-> 1,
     full |-> TRUE, nl |-> TRUE]

Pieces ==
    {p \in [off : Nat, seq : Nat, id : Int, cp : BOOLEAN, input : BOOLEAN, size : Nat \ {0},
            full : BOOLEAN, nl : BOOLEAN] : p.nl => p.full}
Records == {p \in Pieces : p.full}
Indexes == [seq : Nat, off : Nat]

(* The size of the file.                                                   *)
End(f) == IF f = <<>> THEN 0 ELSE f[Len(f)].off + f[Len(f)].size

StartsLine(f, i) == i = 1 \/ f[i - 1].nl

(* The piece is a line by itself, so JSON.parse takes it.                  *)
IsLine(f, i) ==
    /\ StartsLine(f, i) /\ f[i].full
    /\ f[i].nl \/ i = Len(f)

(***************************************************************************)
(* parseLogLines throws: a line that does not parse and is not the very    *)
(* last of the text, which a text that ends in a newline never has.        *)
(***************************************************************************)
Corrupt(f) == \E i, j \in 1 .. Len(f) : i < j /\ ~f[i].nl /\ f[j].nl

LinesAt(f) == {k \in 1 .. Len(f) : IsLine(f, k)}
Lines(f) == {f[k] : k \in LinesAt(f)}
SeqsOf(S) == {p.seq : p \in S}

(* The records a reader gets from a text that parses, in its order.        *)
parseLogLines(f) ==
    [j \in 1 .. Cardinality(LinesAt(f)) |->
        f[CHOOSE k \in LinesAt(f) : Cardinality({q \in LinesAt(f) : q <= k}) = j]]

Maximum(S) == IF S = {} THEN 0 ELSE Max(S)

(* Every piece starts behind the end of those in front of it.              *)
Placed(f) == \A i, j \in 1 .. Len(f) : i < j => f[i].off + f[i].size <= f[j].off

(* The sequences of a text ascend from line to line.                       *)
Ascends(f) == \A i, j \in LinesAt(f) : i < j => f[i].seq < f[j].seq

(* Two shards have no sequence in common.                                  *)
Disjoint(f, g) == SeqsOf(Lines(f)) \cap SeqsOf(Lines(g)) = {}

(* The checkpoint a text's index points to is complete.                    *)
PointsToCheckpoint(f, x) ==
    \E i \in 1 .. Len(f) : f[i].off = x.off /\ f[i].seq = x.seq /\ f[i].cp /\ f[i].nl

(***************************************************************************)
(* A log that earlier processes left: what the one sequence and the order  *)
(* in which a line and its index are written make of the files.  The last  *)
(* write may have been cut short.                                          *)
(***************************************************************************)
ASSUME ScenesAssumption ==
    /\ MaxRecords \in Nat
    /\ \A s \in Scenes :
          /\ IsFiniteSet(s.stores) /\ "worker" \in s.stores
          /\ IsFiniteSet(s.shards) /\ Main \in s.shards
          /\ s.crashes \in Nat /\ s.old \in BOOLEAN
          /\ s.file \in [s.shards -> Seq(Pieces)]
          /\ s.index \in [s.shards -> Indexes]
          /\ \A sh \in s.shards :
                /\ Placed(s.file[sh]) /\ Ascends(s.file[sh])
                /\ \A i \in 1 .. Len(s.file[sh]) : s.file[sh][i].id <= 0
                /\ s.index[sh] # NoIndex => PointsToCheckpoint(s.file[sh], s.index[sh])
          /\ \A s1, s2 \in s.shards : s1 # s2 => Disjoint(s.file[s1], s.file[s2])

(* The last record nextSequence's scan of a shard sees, not the largest.   *)
LastLine(f) ==
    LET r == parseLogLines(f) IN IF r = <<>> THEN 0 ELSE r[Len(r)].seq

(***************************************************************************)
(* readFromCheckpoint: the shard from the indexed byte offset to its end,  *)
(* or nothing when no checkpoint with the indexed sequence starts there,   *)
(* and the caller reads everything.                                        *)
(***************************************************************************)
From(f, off) ==
    {SubSeq(f, i, Len(f)) : i \in {k \in 1 .. Len(f) : f[k].off = off}}

(* Bug: the index is not checked against the record it points to. *)
BugReadFromCheckpointTrusting(sh) ==
    LET x == state.index[sh]
        texts == {f \in From(file[sh], x.off) : x # NoIndex /\ ~Corrupt(f)}
    IN  IF texts = {} THEN <<>> ELSE parseLogLines(CHOOSE f \in texts : TRUE)

readFromCheckpoint(sh) ==
    LET x == state.index[sh]
        texts == {f \in From(file[sh], x.off) :
                    /\ x # NoIndex /\ ~Corrupt(f)
                    /\ IsLine(f, 1) /\ f[1].seq = x.seq /\ f[1].cp}
    IN  IF texts = {} THEN <<>> ELSE parseLogLines(CHOOSE f \in texts : TRUE)

-----------------------------------------------------------------------------
(* A store in memory.  `last' is 0 while lastSequence is undefined.        *)

Fresh == [pc |-> "idle", sh |-> Main, cp |-> FALSE, id |-> 0, meta |-> FALSE,
          known |-> FALSE, last |-> 0, checked |-> {}, off |-> 0, seq |-> 0,
          upgraded |-> FALSE, left |-> {}, snap |-> <<>>, put |-> NoPut]

Set(h, r) == hs' = [hs EXCEPT ![h] = r]

Init ==
    /\ scene \in Scenes
    /\ file = scene.file
    /\ state = [index |-> scene.index, cursor |-> 0, title |-> 0]
    /\ old = scene.old
    /\ hs = [h \in scene.stores |-> Fresh]
    /\ issued = 0 /\ dealt = {} /\ crashes = 0
    /\ acked = UNION {{p.id : p \in Lines(scene.file[sh])} : sh \in scene.shards}

(***************************************************************************)
(* appendRecord, in the store's log lock.  A store of the API is opened    *)
(* for this one append.                                                    *)
(***************************************************************************)
appendRecord(h, sh, cp) ==
    /\ hs[h].pc = "idle" /\ issued < MaxRecords
    /\ h # "worker" => sh = Main /\ ~cp
    /\ issued' = issued + 1
    /\ Set(h, [(IF h = "worker" THEN hs[h] ELSE [Fresh EXCEPT !.put = hs[h].put]) EXCEPT
                 !.pc = "version", !.sh = sh, !.cp = cp, !.id = issued + 1])
    /\ UNCHANGED <<scene, file, state, old, acked, dealt, crashes>>

(* The append is rejected; what the store has noted so far stays noted.    *)
Rejected(h) == [hs[h] EXCEPT !.pc = "idle"]

(***************************************************************************)
(* ensureCurrentVersion: once per store, an old log is rewritten shard by  *)
(* shard and stamped; a log that was never written is only stamped.        *)
(***************************************************************************)
ensureCurrentVersion(h) ==
    /\ hs[h].pc = "version"
    /\ LET stale == old /\ \E sh \in Shards : file[sh] # <<>> IN
         /\ Set(h, [hs[h] EXCEPT !.upgraded = TRUE,
                      !.pc = IF ~hs[h].upgraded /\ stale THEN "rewrite" ELSE "meta",
                      !.left = IF ~hs[h].upgraded /\ stale
                               THEN {sh \in Shards : file[sh] # <<>>} ELSE {}])
         /\ old' = IF ~hs[h].upgraded /\ ~stale THEN FALSE ELSE old
    /\ UNCHANGED <<scene, file, state, issued, acked, dealt, crashes>>

(* Bug: the rewrite leaves the last record out. *)
BugRewriteShardReadsDropsLast(h, sh) ==
    /\ hs[h].pc = "rewrite" /\ sh \in hs[h].left
    /\ Set(h, IF Corrupt(file[sh]) THEN Rejected(h)
              ELSE [hs[h] EXCEPT !.pc = "rename", !.sh = sh,
                      !.snap = LET r == parseLogLines(file[sh]) IN SubSeq(r, 1, Len(r) - 1)])
    /\ UNCHANGED <<scene, file, state, old, issued, acked, dealt, crashes>>

(* rewriteShard reads the shard's lines, torn tail left out ...            *)
rewriteShardReads(h, sh) ==
    /\ hs[h].pc = "rewrite" /\ sh \in hs[h].left
    /\ Set(h, IF Corrupt(file[sh]) THEN Rejected(h)
              ELSE [hs[h] EXCEPT !.pc = "rename", !.sh = sh,
                      !.snap = parseLogLines(file[sh])])
    /\ UNCHANGED <<scene, file, state, old, issued, acked, dealt, crashes>>

(* ... renames its new file into place ...                                 *)
rewriteShardRenames(h) ==
    /\ hs[h].pc = "rename"
    /\ file' = [file EXCEPT ![hs[h].sh] = [i \in 1 .. Len(hs[h].snap) |->
                   [hs[h].snap[i] EXCEPT !.off = i - 1, !.size = 1, !.nl = TRUE]]]
    /\ Set(h, [hs[h] EXCEPT !.pc = "repoint", !.checked = @ \cup {hs[h].sh}])
    /\ UNCHANGED <<scene, state, old, issued, acked, dealt, crashes>>

(* The newest checkpoint of the lines just written, and its new offset.    *)
Newest(snap) ==
    LET cps == {i \in 1 .. Len(snap) : snap[i].cp}
    IN  IF cps = {} THEN NoIndex ELSE [seq |-> snap[Max(cps)].seq, off |-> Max(cps) - 1]

(* ... and points the checkpoint index into it.                            *)
rewriteShardRepoints(h) ==
    /\ hs[h].pc = "repoint" /\ hs[h].put = NoPut
    /\ LET left == hs[h].left \ {hs[h].sh} IN
         Set(h, [hs[h] EXCEPT
                   !.put = [key |-> "index", sh |-> hs[h].sh, val |-> Newest(hs[h].snap), copy |-> <<>>],
                   !.left = left, !.snap = <<>>,
                   !.pc = IF left = {} THEN "stamp" ELSE "rewrite"])
    /\ UNCHANGED <<scene, file, state, old, issued, acked, dealt, crashes>>

stampVersion(h) ==
    /\ hs[h].pc = "stamp" /\ hs[h].put = NoPut
    /\ old' = FALSE
    /\ Set(h, [hs[h] EXCEPT !.pc = "meta"])
    /\ UNCHANGED <<scene, file, state, issued, acked, dealt, crashes>>

-----------------------------------------------------------------------------
(***************************************************************************)
(* ensureMetadata: a shard without a first line gets its metadata record.  *)
(* Then a checkpoint takes the file's size as its offset.                  *)
(***************************************************************************)
ensureMetadata(h) ==
    /\ hs[h].pc = "meta"
    /\ LET s == hs[h]
           f == file[s.sh]
           unread == s.sh \notin s.checked
       IN  Set(h, IF unread /\ f # <<>> /\ ~IsLine(f, 1) /\ Corrupt(f)
                  THEN [Rejected(h) EXCEPT !.checked = @ \cup {s.sh}]
                  ELSE [s EXCEPT !.checked = @ \cup {s.sh},
                          !.meta = unread /\ Lines(f) = {},
                          !.pc = IF unread /\ Lines(f) = {} THEN "seq"
                                 ELSE IF s.cp THEN "size" ELSE "seq"])
    /\ UNCHANGED <<scene, file, state, old, issued, acked, dealt, crashes>>

fileSize(h) ==
    /\ hs[h].pc = "size"
    /\ Set(h, [hs[h] EXCEPT !.off = End(file[hs[h].sh]), !.pc = "seq"])
    /\ UNCHANGED <<scene, file, state, old, issued, acked, dealt, crashes>>

(* Bug: sequences are counted per shard. *)
BugNextSequenceOfShard(h) ==
    /\ hs[h].pc = "seq"
    /\ Set(h, IF ~hs[h].known /\ \E sh \in Shards : Corrupt(file[sh]) THEN Rejected(h)
              ELSE LET last == IF hs[h].known THEN hs[h].last ELSE LastLine(file[hs[h].sh])
                   IN  [hs[h] EXCEPT !.known = TRUE, !.last = last + 1, !.seq = last + 1,
                                     !.pc = "write"])
    /\ UNCHANGED <<scene, file, state, old, issued, acked, dealt, crashes>>

(***************************************************************************)
(* nextSequence: the store's own counter; the first time, the last line of *)
(* every shard, taken for the largest.                                     *)
(***************************************************************************)
nextSequence(h) ==
    /\ hs[h].pc = "seq"
    /\ Set(h, IF ~hs[h].known /\ \E sh \in Shards : Corrupt(file[sh]) THEN Rejected(h)
              ELSE LET last == IF hs[h].known THEN hs[h].last
                               ELSE Maximum({LastLine(file[sh]) : sh \in Shards})
                   IN  [hs[h] EXCEPT !.known = TRUE, !.last = last + 1, !.seq = last + 1,
                                     !.pc = "write"])
    /\ UNCHANGED <<scene, file, state, old, issued, acked, dealt, crashes>>

Written(h) ==
    LET s == hs[h]
        end == End(file[s.sh])
    IN  IF s.meta THEN Piece(end, s.seq, 0, FALSE)
        ELSE [Piece(end, s.seq, s.id, s.cp) EXCEPT !.input = (h # "worker")]

(***************************************************************************)
(* appendStored's appendFile.  After the metadata comes the record; after  *)
(* a checkpoint its index; any other record is acknowledged.               *)
(***************************************************************************)
appendStored(h) ==
    /\ hs[h].pc = "write"
    /\ file' = [file EXCEPT ![hs[h].sh] = Append(@, Written(h))]
    /\ Set(h, [hs[h] EXCEPT !.meta = FALSE,
                 !.pc = IF hs[h].meta THEN (IF hs[h].cp THEN "size" ELSE "seq")
                        ELSE IF hs[h].cp THEN "index" ELSE "idle"])
    /\ acked' = IF hs[h].meta \/ hs[h].cp THEN acked ELSE acked \cup {hs[h].id}
    /\ UNCHANGED <<scene, state, old, issued, dealt, crashes>>

(* The checkpoint's byte offset goes into state.json after its line.       *)
indexCheckpoint(h) ==
    /\ hs[h].pc = "index" /\ hs[h].put = NoPut
    /\ Set(h, [hs[h] EXCEPT !.pc = "indexed",
                 !.put = [key |-> "index", sh |-> hs[h].sh,
                          val |-> [seq |-> hs[h].seq, off |-> hs[h].off], copy |-> <<>>]])
    /\ UNCHANGED <<scene, file, state, old, issued, acked, dealt, crashes>>

checkpointAppended(h) ==
    /\ hs[h].pc = "indexed" /\ hs[h].put = NoPut
    /\ Set(h, [hs[h] EXCEPT !.pc = "idle"])
    /\ acked' = acked \cup {hs[h].id}
    /\ UNCHANGED <<scene, file, state, old, issued, dealt, crashes>>

-----------------------------------------------------------------------------
(* putState: in the store's state lock, read state.json, change a key,     *)
(* replace the file.                                                       *)

putStateReads(h) ==
    /\ hs[h].put # NoPut /\ hs[h].put.copy = <<>>
    /\ Set(h, [hs[h] EXCEPT !.put.copy = <<state>>])
    /\ UNCHANGED <<scene, file, state, old, issued, acked, dealt, crashes>>

putStateWrites(h) ==
    /\ hs[h].put # NoPut /\ hs[h].put.copy # <<>>
    /\ LET p == hs[h].put IN
         state' = CASE p.key = "index" -> [p.copy[1] EXCEPT !.index[p.sh] = p.val]
                    [] p.key = "cursor" -> [p.copy[1] EXCEPT !.cursor = p.val]
                    [] p.key = "title" -> [p.copy[1] EXCEPT !.title = p.val]
    /\ Set(h, [hs[h] EXCEPT !.put = NoPut])
    /\ UNCHANGED <<scene, file, old, issued, acked, dealt, crashes>>

(***************************************************************************)
(* The worker's pass over its inbox: the inputs the main shard holds past  *)
(* the cursor, in the order of the sequences, are dealt with, and the      *)
(* cursor follows.  A log that does not parse makes the read throw.        *)
(***************************************************************************)
readInbox ==
    LET new == {p \in Lines(file[Main]) : p.input /\ p.seq > state.cursor} IN
    /\ hs["worker"].put = NoPut /\ hs["worker"].pc = "idle"
    /\ ~Corrupt(file[Main]) /\ new # {}
    /\ dealt' = dealt \cup {p.id : p \in new}
    /\ Set("worker", [hs["worker"] EXCEPT !.put =
             [key |-> "cursor", sh |-> Main, val |-> Max(SeqsOf(new)), copy |-> <<>>]])
    /\ UNCHANGED <<scene, file, state, old, issued, acked, crashes>>

(* The API renames the session through a store of its own.                 *)
rename(h) ==
    /\ h # "worker" /\ hs[h].pc = "idle" /\ hs[h].put = NoPut /\ state.title = 0
    /\ Set(h, [hs[h] EXCEPT !.put = [key |-> "title", sh |-> Main, val |-> 1, copy |-> <<>>]])
    /\ UNCHANGED <<scene, file, state, old, issued, acked, dealt, crashes>>

(***************************************************************************)
(* The process dies.  An append that was being written leaves all of its   *)
(* line, none, a part of the record, or the record without its newline; a  *)
(* file replaced by rename is the old one or the new one.                  *)
(***************************************************************************)
crash ==
    /\ crashes < scene.crashes
    /\ crashes' = crashes + 1
    /\ \/ UNCHANGED file
       \/ \E h \in Stores, full \in BOOLEAN :
            /\ hs[h].pc = "write"
            /\ file' = [file EXCEPT ![hs[h].sh] = Append(@, [Written(h) EXCEPT !.full = full, !.nl = FALSE])]
    /\ hs' = [h \in Stores |-> Fresh]
    /\ UNCHANGED <<scene, state, old, issued, acked, dealt>>

-----------------------------------------------------------------------------
Proceed(h) ==
    \/ ensureCurrentVersion(h) \/ (\E sh \in Shards : rewriteShardReads(h, sh))
    \/ rewriteShardRenames(h) \/ rewriteShardRepoints(h) \/ stampVersion(h)
    \/ ensureMetadata(h) \/ fileSize(h) \/ nextSequence(h) \/ appendStored(h)
    \/ indexCheckpoint(h) \/ checkpointAppended(h)
    \/ putStateReads(h) \/ putStateWrites(h)

Next ==
    \/ \E h \in Stores : \/ \E sh \in Shards, cp \in BOOLEAN : appendRecord(h, sh, cp)
                         \/ Proceed(h)
                         \/ rename(h)
    \/ readInbox
    \/ crash

Spec == Init /\ [][Next]_vars

-----------------------------------------------------------------------------
(* Properties.                                                             *)

PcSet == {"idle", "version", "rewrite", "rename", "repoint", "stamp", "meta", "size",
          "seq", "write", "index", "indexed"}

Contents == [index : [Shards -> Indexes], cursor : Nat, title : 0 .. 1]
Copies == {c \in Seq(Contents) : Len(c) <= 1}
Puts ==
    {NoPut} \cup [key : {"index"}, sh : Shards, val : Indexes, copy : Copies]
            \cup [key : {"cursor"}, sh : Shards, val : Nat, copy : Copies]
            \cup [key : {"title"}, sh : Shards, val : 0 .. 1, copy : Copies]

Memory ==
    {m \in [pc : PcSet, sh : Shards, cp : BOOLEAN, id : Nat, meta : BOOLEAN, known : BOOLEAN,
            last : Nat, checked : SUBSET Shards, off : Nat, seq : Nat, upgraded : BOOLEAN,
            left : SUBSET Shards, snap : Seq(Records), put : Puts] : m.seq <= m.last}

(***************************************************************************)
(* Types; a record is acknowledged once its append was called; a sequence  *)
(* a store has handed out is not past its counter.                         *)
(***************************************************************************)
DiskTypeOK ==
    /\ file \in [Shards -> Seq(Pieces)] /\ state \in Contents
    /\ old \in BOOLEAN /\ hs \in [Stores -> Memory]
    /\ issued \in 0 .. MaxRecords /\ crashes \in 0 .. scene.crashes
    /\ acked \subseteq {id \in Int : id <= issued}
    /\ dealt \subseteq Int

(***************************************************************************)
(* A replay from the indexed checkpoint gives what a full read gives from  *)
(* that checkpoint on: an index written after its line, left behind by a   *)
(* crash or by a rewrite that has just moved every line, or overwritten by *)
(* another store is an older checkpoint or is not used, and never a place  *)
(* in the middle of the history (disk-store.ts readFromCheckpoint).        *)
(***************************************************************************)
CheckpointReadIsSuffix ==
    \A sh \in Shards :
        LET r == readFromCheckpoint(sh)
            all == parseLogLines(file[sh])
        IN  r # <<>> /\ ~Corrupt(file[sh]) =>
              /\ r[1].cp /\ Len(r) <= Len(all)
              /\ r = SubSeq(all, Len(all) - Len(r) + 1, Len(all))

(***************************************************************************)
(* With one store at a time, the sequences of a shard ascend, none is used *)
(* twice over all shards, and a store that starts after a crash goes on    *)
(* past every record that is in the log (disk-store.ts: "each shard's      *)
(* final line is its max").                                                *)
(***************************************************************************)
SequencesAscend ==
    Alone =>
      /\ \A sh \in Shards : Ascends(file[sh])
      /\ \A s1, s2 \in Shards : s1 # s2 => Disjoint(file[s1], file[s2])
      /\ hs["worker"].known => \A sh \in Shards : \A p \in Lines(file[sh]) : p.seq <= hs["worker"].last

(* Record id is on a line that other text was appended to or before.       *)
Glued(id) ==
    \E sh \in Shards : \E i \in 1 .. Len(file[sh]) :
        file[sh][i].id = id /\ ~IsLine(file[sh], i)

(***************************************************************************)
(* With one store at a time, an acknowledged record stays in the log       *)
(* through crashes and the rewrite of an old log; only a line that was     *)
(* glued to a torn one is unreadable.                                      *)
(***************************************************************************)
AckedIsKept ==
    Alone => \A id \in acked :
        Glued(id) \/ \E sh \in Shards : \E p \in Lines(file[sh]) : p.id = id

(***************************************************************************)
(* A restart goes on where the log ends and finds in it what it was told   *)
(* is there (disk-store.ts appendRecord, nextSequence, rewriteShard).      *)
(***************************************************************************)
LogSurvivesRestarts == SequencesAscend /\ AckedIsKept

(***************************************************************************)
(* What the worker's cursor has passed, it has dealt with (inbox.ts:       *)
(* reading the log past the cursor "is what makes it impossible to lose").  *)
(***************************************************************************)
NothingIsPassedOver ==
    \A p \in Lines(file[Main]) :
        p.input /\ p.seq <= state.cursor /\ p.id \in acked => p.id \in dealt

(***************************************************************************)
(* disk-store.ts parseLogLines: "The very last line may be a half-flushed  *)
(* write at crash time - tolerate it."  A log that a crash has cut short   *)
(* can be read, and goes on being readable.                                *)
(***************************************************************************)
TornTailIsTolerated == \A sh \in Shards : ~Corrupt(file[sh])
=============================================================================
