------------------------------ MODULE Stickers ------------------------------
(* The sticker collection: pictures are files, an index in the key-value store says *)
(* which there are (sticker_store.py); the tools save_sticker and send_sticker work *)
(* on it from several conversations at once (sticker_tools.py). A step runs from    *)
(* one await to the next; writing and removing a file are part of a step.           *)
EXTENDS Integers, FiniteSets

CONSTANTS
  Savers, Senders,
  Pictures,     \* what there is to save; its id is the hash of its bytes
  NoPicture,
  MaxStickers,
  MaxFaults     \* bound: writes of a file or of the index that fail

VARIABLES
  index,     \* the ids the index lists
  files,     \* the ids with a complete file
  pc,        \* a saver's: "idle", "reading", "counting", "writing", "renaming", "saved", "refused"
             \* a sender's: "idle", "finding", "loading", "ended" or "missing"
  picture,   \* what each saves, or has found
  faults

vars == <<index, files, pc, picture, faults>>

Init ==
  /\ index = {} /\ files = {} /\ faults = MaxFaults
  /\ pc = [t \in Savers \cup Senders |-> "idle"]
  /\ picture \in [Savers \cup Senders -> Pictures \cup {NoPicture}]
  /\ \A t \in Savers : picture[t] # NoPicture
  /\ \A t \in Senders : picture[t] = NoPicture

Goto(t, place) == pc' = [pc EXCEPT ![t] = place]
Fail == faults > 0 /\ faults' = faults - 1

--------------------------------------------------------------------------------
Save(t) ==
  /\ pc[t] = "idle" /\ Goto(t, "reading")
  /\ UNCHANGED <<index, files, picture, faults>>

\* _read_meta: a picture that is listed only gets its new name; a row that cannot
\* be read counts as none.
Read(t) ==
  /\ pc[t] = "reading"
  /\ \/ Goto(t, IF picture[t] \in index THEN "renaming" ELSE "counting") /\ UNCHANGED faults
     \/ Fail /\ Goto(t, "counting")
  /\ UNCHANGED <<index, files, picture>>

\* _write_meta for a listed picture: the name is replaced, or the write fails.
Rename(t) ==
  /\ pc[t] = "renaming"
  /\ \/ Goto(t, "saved") /\ index' = index \cup {picture[t]} /\ UNCHANGED faults
     \/ Fail /\ Goto(t, "refused") /\ UNCHANGED index
  /\ UNCHANGED <<files, picture>>

Written(t) == files' = files \cup {picture[t]}

\* The collection is counted and the file is written, at once. A count that fails is zero.
Count(t) ==
  /\ pc[t] = "counting"
  /\ \E counted \in {Cardinality(index)} \cup (IF faults > 0 THEN {0} ELSE {}) :
       /\ faults' = IF counted = Cardinality(index) THEN faults ELSE faults - 1
       /\ IF counted >= MaxStickers
          THEN Goto(t, "refused") /\ UNCHANGED files
          ELSE Goto(t, "writing") /\ Written(t)
  /\ UNCHANGED <<index, picture>>

\* The disk refuses the file, or takes a part of it: nothing is listed.
DiskFull(t) ==
  /\ pc[t] = "counting" /\ Cardinality(index) < MaxStickers /\ Fail /\ Goto(t, "refused")
  /\ files' \in {files, files \ {picture[t]}}
  /\ UNCHANGED <<index, picture>>

\* The index is written, or the file is taken back.
WriteIndex(t) ==
  /\ pc[t] = "writing"
  /\ \/ Goto(t, "saved") /\ index' = index \cup {picture[t]} /\ UNCHANGED <<files, faults>>
     \/ Fail /\ Goto(t, "refused") /\ files' = files \ {picture[t]} /\ UNCHANGED index
  /\ UNCHANGED picture

--------------------------------------------------------------------------------
\* send_sticker: find_by_name lists the collection, load_bytes reads the row again
\* and then the file.
Send(t) ==
  /\ pc[t] = "idle" /\ Goto(t, "finding")
  /\ UNCHANGED <<index, files, picture, faults>>

Find(t) ==
  /\ pc[t] = "finding"
  /\ \/ \E p \in index : picture' = [picture EXCEPT ![t] = p] /\ Goto(t, "loading")
     \/ UNCHANGED picture /\ Goto(t, "ended")     \* no sticker has that name
  /\ UNCHANGED <<index, files, faults>>

Load(t) ==
  /\ pc[t] = "loading"
  /\ Goto(t, IF picture[t] \in index \cap files THEN "ended" ELSE "missing")
  /\ UNCHANGED <<index, files, picture, faults>>

Next ==
  \/ \E t \in Savers : Save(t) \/ Read(t) \/ Rename(t) \/ Count(t) \/ DiskFull(t) \/ WriteIndex(t)
  \/ \E t \in Senders : Send(t) \/ Find(t) \/ Load(t)

Spec == Init /\ [][Next]_vars

--------------------------------------------------------------------------------
\* Two saves of one picture, one of which may fail after the other has listed it and
\* take the file back, or write a part of it over the whole one.
Rivals == MaxFaults > 0 /\ \E s, t \in Savers : s # t /\ picture[s] = picture[t]

\* The type invariant.
TypeOK == index \subseteq Pictures /\ files \subseteq Pictures /\ faults \in 0..MaxFaults

\* What is listed can be sent (delete: "an orphan file is harmless, an orphan index
\* row isn't"): every row has its file, and no sender finds one missing.
RowHasFile == index \subseteq files /\ \A t \in Senders : pc[t] # "missing"

\* Without rivals that holds whatever fails.
RowHasFileAlone == Rivals \/ RowHasFile
================================================================================
