----------------------------- MODULE Backups_proofs -----------------------------
(***************************************************************************)
(* Proofs about Backups for any number of backups, restores and restarts.  *)
(*                                                                         *)
(* A restore takes the database away and puts another in its place, and    *)
(* may fail or stop anywhere.  That a whole database is always left        *)
(* somewhere is not inductive: nothing keeps a second restore from failing *)
(* over the file that the first left aside.  The invariant adds that       *)
(* restores do not meet, that one at work has the old file aside or        *)
(* another has (AsideInv), and that a file put aside is never put over     *)
(* another, for each restore begins with nothing aside (FreshInv).         *)
(*                                                                         *)
(* That a completed backup has its archive rests on what the copies of a   *)
(* row say, which jobs, restores, deletions and changes of the schedule    *)
(* keep and save later (RowOk), on each backup being made once (JobOk),    *)
(* and on removals taking archive and row of one backup (KeptInv).         *)
(*                                                                         *)
(* What rows, dumps and copies hold, whatever happens (DataInv), carries   *)
(* the other three.  The stored schedule: no row holds one from the        *)
(* clearing of the old to the storing of the new, and then the stored one  *)
(* is that row's (TimerInv).  Work under way: a row that is not settled is *)
(* in the hand of its goroutine or of a restore (WorkInv).  Rotation: what *)
(* is gone, and what some rotation is to remove, has as many newer backups *)
(* as are kept (BackedInv), and what no rotation is to remove is no more   *)
(* than that, unless one is still to look (CountInv).                      *)
(***************************************************************************)
EXTENDS Backups, FiniteSetTheorems, WellFoundedInduction, TLAPS

Parameters == Live # None /\ Live # Broken

Whole(file) == file \notin {None, Broken}

Shape == /\ DOMAIN restore = Restore /\ DOMAIN aside = Restore
         /\ left \in 0..MaxEvents

Pc(r) == restore[r].pc

Together == "together" \in excuse

\* A restore that has not come to the renaming yet has put nothing aside.
FreshInv ==
  \A r \in Restore :
    /\ Pc(r) # "idle" => r > left
    /\ r <= left \/ Pc(r) \in {"mark", "open", "rename"} => aside[r] = None

AloneInv == \A r, q \in Restore : Pc(r) \in {"copy", "verify"} /\ Pc(q) \in {"copy", "verify"} => r = q

SomeAside == \E r \in Restore : Whole(aside[r])

AsideInv == (\E r \in Restore : Pc(r) \in {"copy", "verify"}) => SomeAside

SafeInv == FreshInv /\ (Together \/ (AloneInv /\ AsideInv /\ (Whole(disk) \/ SomeAside)))

IInv == Shape /\ SafeInv

-----------------------------------------------------------------------------
(* Steps of the others: they let the files alone, and use up events.       *)

LEMMA AsideOfOthers ==
  ASSUME IInv, UNCHANGED <<restore, aside, disk>>, left' \in 0..MaxEvents, left' <= left, excuse \subseteq excuse'
  PROVE  IInv'
<1>1. \A r \in Restore : r \in Nat
  BY DEF Restore
<1>2. \A r \in Restore : (r <= left' => r <= left) /\ (r > left => r > left')
  BY <1>1 DEF IInv, Shape
<1> QED
  BY <1>2 DEF IInv, Shape, SafeInv, FreshInv, AloneInv, AsideInv, SomeAside, Together, Pc

LEMMA OthersInv ==
  ASSUME IInv, CreateBackup \/ (\E s \in Stamp : MakeBackup(s)) \/ DeleteBackup \/ SetSchedule
  PROVE  IInv'
<1> USE DEF Save, Erase, Insert, Spend
<1>1. /\ left \in 0..MaxEvents /\ left <= left
      /\ left > 0 => left - 1 \in 0..MaxEvents /\ left - 1 <= left
  BY BackupsAssumption DEF IInv, Shape
<1>2. CASE CreateBackup
  BY <1>1, <1>2, AsideOfOthers DEF CreateBackup
<1>3. ASSUME NEW s \in Stamp, MakeBackup(s) PROVE IInv'
  <2>1. UNCHANGED <<restore, aside, disk, left>> /\ excuse \subseteq excuse'
    BY <1>3 DEF MakeBackup, JobRead, JobRun, DumpDatabase, Mix, Pack, JobSave, RotateList, RotateFile,
                RotateRow, JobUnchanged
  <2> QED
    BY <1>1, <2>1, AsideOfOthers
<1>4. CASE DeleteBackup
  <2>1. UNCHANGED <<restore, aside, disk>> /\ (UNCHANGED left \/ (left > 0 /\ left' = left - 1))
    <3>1. ASSUME NEW i \in Id, DeleteRead(i) PROVE UNCHANGED <<restore, aside, disk>> /\ left > 0 /\ left' = left - 1
      BY <3>1 DEF DeleteRead, DeleteUnchanged
    <3>2. ASSUME DeleteFiles \/ DeleteRow PROVE UNCHANGED <<restore, aside, disk, left>>
      BY <3>2 DEF DeleteFiles, DeleteRow, DeleteUnchanged
    <3> QED
      BY <1>4, <3>1, <3>2 DEF DeleteBackup
  <2>2. excuse \subseteq excuse'
    BY <1>4 DEF DeleteBackup, DeleteRead, DeleteFiles, DeleteRow
  <2> QED
    BY <1>1, <2>1, <2>2, AsideOfOthers
<1>5. CASE SetSchedule
  <2>1. UNCHANGED <<restore, aside, disk>> /\ (UNCHANGED left \/ (left > 0 /\ left' = left - 1))
    <3>1. ASSUME NEW c, UpdateSchedule(c) PROVE UNCHANGED <<restore, aside, disk>> /\ left > 0 /\ left' = left - 1
      BY <3>1 DEF UpdateSchedule, SchedUnchanged
    <3>2. ASSUME SchedClear \/ SchedLatest \/ SchedSave \/ SchedEntry PROVE UNCHANGED <<restore, aside, disk, left>>
      BY <3>2 DEF SchedClear, SchedLatest, SchedSave, SchedEntry, SchedUnchanged
    <3> QED
      BY <1>5, <3>1, <3>2 DEF SetSchedule
  <2>2. excuse \subseteq excuse'
    BY <1>5 DEF SetSchedule, UpdateSchedule, SchedClear, SchedLatest, SchedSave, SchedEntry
  <2> QED
    BY <1>1, <2>1, <2>2, AsideOfOthers
<1> QED
  BY <1>2, <1>3, <1>4, <1>5

-----------------------------------------------------------------------------
(* The steps of a restore.                                                 *)

\* Steps before and after it is at the files of the database.
LEMMA StageInv ==
  ASSUME IInv, NEW r \in Restore, UNCHANGED <<aside, disk>>, excuse \subseteq excuse',
         DOMAIN restore' = Restore, \A q \in Restore \ {r} : Pc(q)' = Pc(q),
         Pc(r)' \notin {"copy", "verify"},
         \/ /\ UNCHANGED left /\ (Pc(r)' # "idle" => Pc(r) # "idle")
            /\ Pc(r)' \in {"mark", "open", "rename"} => Pc(r) \in {"mark", "open", "rename"}
         \/ left' = left - 1 /\ left > 0 /\ r = left
  PROVE  IInv'
<1>1. left \in Nat /\ \A q \in Restore : q \in Nat
  BY DEF IInv, Shape, Restore
<1>2. Shape'
  BY <1>1, BackupsAssumption DEF IInv, Shape
<1>3. FreshInv'
  BY <1>1 DEF IInv, SafeInv, FreshInv
<1>4. Together => Together'
  BY DEF Together
<1>5. AloneInv => AloneInv'
  BY DEF AloneInv
<1>6. AsideInv => AsideInv'
  BY DEF AsideInv, SomeAside
<1> QED
  BY <1>2, <1>3, <1>4, <1>5, <1>6 DEF IInv, SafeInv, SomeAside

\* What a step does to the counters of the restores.
Moves(r, to) == Pc(r)' \in to /\ DOMAIN restore' = Restore /\ \A q \in Restore \ {r} : Pc(q)' = Pc(q)

LEMMA FailsMoves ==
  ASSUME Shape, NEW r \in Restore, Fails(r)
  PROVE  Moves(r, {"save"})
BY DEF Fails, Shape, Moves, Pc

LEMMA GoesMoves ==
  ASSUME Shape, NEW r \in Restore, NEW pc
  PROVE  /\ restore' = [restore EXCEPT ![r].pc = pc] => Moves(r, {pc})
         /\ \A copy : restore' = [restore EXCEPT ![r].pc = pc, ![r].copy = copy] => Moves(r, {pc})
         /\ \A row : restore' = [restore EXCEPT ![r].pc = pc, ![r].row = row] => Moves(r, {pc})
         /\ \A status : restore' = [restore EXCEPT ![r].pc = pc, ![r].row.status = status] => Moves(r, {pc})
<1>1. ASSUME restore' = [restore EXCEPT ![r].pc = pc] PROVE Moves(r, {pc})
  BY <1>1 DEF Shape, Moves, Pc
<1>2. ASSUME NEW copy, restore' = [restore EXCEPT ![r].pc = pc, ![r].copy = copy] PROVE Moves(r, {pc})
  BY <1>2 DEF Shape, Moves, Pc
<1>3. ASSUME NEW row, restore' = [restore EXCEPT ![r].pc = pc, ![r].row = row] PROVE Moves(r, {pc})
  BY <1>3 DEF Shape, Moves, Pc
<1>4. ASSUME NEW status, restore' = [restore EXCEPT ![r].pc = pc, ![r].row.status = status] PROVE Moves(r, {pc})
  BY <1>4 DEF Shape, Moves, Pc
<1> QED
  BY <1>1, <1>2, <1>3, <1>4

LEMMA RenameInv ==
  ASSUME IInv, NEW r \in Restore, RestoreRename(r)
  PROVE  IInv'
<1>1. /\ Pc(r) = "rename" /\ Pc(r)' = "copy" /\ \A q \in Restore \ {r} : Pc(q)' = Pc(q)
      /\ DOMAIN restore' = Restore /\ UNCHANGED left
      /\ aside' = [aside EXCEPT ![r] = disk] /\ disk' = None
  BY DEF RestoreRename, Pc, IInv, Shape
<1>2. Together' <=> Together \/ \E q \in Restore \ {r} : Pc(q) \in {"copy", "verify"}
  BY DEF RestoreRename, Together, Pc
<1>3. aside[r] = None
  BY <1>1 DEF IInv, SafeInv, FreshInv
<1>4. /\ DOMAIN aside' = Restore /\ aside'[r] = disk
      /\ \A q \in Restore \ {r} : aside'[q] = aside[q]
  BY <1>1 DEF IInv, Shape
<1>5. Shape'
  BY <1>1, <1>4 DEF IInv, Shape
<1>6. FreshInv'
  <2>1. ~(r <= left)
    BY <1>1 DEF IInv, Shape, SafeInv, FreshInv, Restore
  <2> QED
    BY <1>1, <1>4, <2>1 DEF IInv, SafeInv, FreshInv
<1>7. ASSUME ~Together' PROVE AloneInv' /\ AsideInv' /\ SomeAside'
  <2>1. AloneInv'
    BY <1>1, <1>2, <1>7 DEF AloneInv
  <2>2. SomeAside'
    BY <1>2, <1>3, <1>4, <1>7 DEF IInv, SafeInv, SomeAside, Whole
  <2> QED
    BY <2>1, <2>2 DEF AsideInv
<1> QED
  BY <1>5, <1>6, <1>7 DEF IInv, SafeInv

\* Copying may leave anything at the path: the old file is aside.
LEMMA CopyInv ==
  ASSUME IInv, NEW r \in Restore, RestoreCopy(r)
  PROVE  IInv'
<1>1. Pc(r) = "copy" /\ Moves(r, {"verify", "save"})
  <2>1. CASE Fails(r)
    BY <2>1, FailsMoves DEF RestoreCopy, Moves, Pc, IInv
  <2>2. CASE restore' = [restore EXCEPT ![r].pc = "verify", ![r].copy = None]
    BY <2>2, GoesMoves DEF RestoreCopy, Moves, Pc, IInv
  <2> QED
    BY <2>1, <2>2 DEF RestoreCopy
<1>2. UNCHANGED <<left, aside, excuse>>
  BY DEF RestoreCopy
<1>3. Shape' /\ FreshInv'
  BY <1>1, <1>2 DEF Moves, IInv, Shape, SafeInv, FreshInv
<1>4. ASSUME ~Together PROVE AloneInv' /\ AsideInv' /\ SomeAside'
  BY <1>1, <1>2, <1>4 DEF Moves, IInv, SafeInv, AloneInv, AsideInv, SomeAside
<1> QED
  BY <1>2, <1>3, <1>4 DEF IInv, SafeInv, Together

\* The old file goes when the copy is whole, or comes back.
LEMMA VerifyInv ==
  ASSUME Parameters, IInv, NEW r \in Restore, RestoreVerify(r)
  PROVE  IInv'
<1>1. Pc(r) = "verify" /\ Moves(r, {"files", "save"})
  <2>1. CASE Fails(r)
    BY <2>1, FailsMoves DEF RestoreVerify, Moves, Pc, IInv
  <2>2. CASE restore' = [restore EXCEPT ![r].pc = "files"]
    BY <2>2, GoesMoves DEF RestoreVerify, Moves, Pc, IInv
  <2> QED
    BY <2>1, <2>2 DEF RestoreVerify
<1>2. UNCHANGED <<left, excuse>> /\ aside' = [aside EXCEPT ![r] = None]
  BY DEF RestoreVerify
<1>3. /\ DOMAIN aside' = Restore /\ aside'[r] = None
      /\ \A q \in Restore \ {r} : aside'[q] = aside[q]
  BY <1>2 DEF IInv, Shape
<1>4. Shape' /\ FreshInv'
  BY <1>1, <1>2, <1>3 DEF Moves, IInv, Shape, SafeInv, FreshInv
<1>5. ASSUME ~Together PROVE AloneInv' /\ AsideInv' /\ (Whole(disk)' \/ SomeAside')
  <2>1. AloneInv /\ SomeAside
    BY <1>1, <1>5 DEF IInv, SafeInv, AsideInv
  <2>2. AloneInv' /\ AsideInv'
    BY <1>1, <2>1 DEF Moves, AloneInv, AsideInv
  <2>3. CASE \E q \in Restore \ {r} : Whole(aside[q])
    BY <1>3, <2>2, <2>3 DEF SomeAside, Whole
  <2>4. CASE Whole(aside[r])
    <3>1. (disk' = disk /\ Whole(disk)) \/ disk' = aside[r]
      BY <2>4 DEF RestoreVerify, Whole
    <3> QED
      BY <2>2, <2>4, <3>1 DEF Whole
  <2> QED
    BY <2>1, <2>2, <2>3, <2>4 DEF SomeAside
<1> QED
  BY <1>2, <1>4, <1>5 DEF IInv, SafeInv, Together

LEMMA StepsInv ==
  ASSUME Parameters, IInv, RestoreBackup
  PROVE  IInv'
<1>1. DOMAIN restore = Restore /\ left \in 0..MaxEvents
  BY DEF IInv, Shape
<1>2. ASSUME NEW i \in Id, RestoreRead(i) PROVE IInv'
  <2>1. left > 0 /\ left' = left - 1 /\ left \in Restore
    BY <1>1, <1>2, BackupsAssumption DEF RestoreRead, Spend, Restore
  <2>2. [Idle EXCEPT !.pc = "mark", !.id = i, !.row = table[i]].pc = "mark"
    BY DEF Idle
  <2>3. PICK r \in Restore : r = left
    BY <2>1
  <2> DEFINE new == [Idle EXCEPT !.pc = "mark", !.id = i, !.row = table[i]]
  <2>4. restore' = [restore EXCEPT ![r] = new] /\ new.pc = "mark"
    BY <1>2, <2>2, <2>3 DEF RestoreRead
  <2> HIDE DEF new
  <2>5. Pc(r)' = "mark" /\ DOMAIN restore' = Restore /\ \A q \in Restore \ {r} : Pc(q)' = Pc(q)
    BY <1>1, <2>4 DEF Pc
  <2> QED
    BY <1>2, <2>1, <2>3, <2>5, StageInv DEF RestoreRead
<1>3. ASSUME NEW r \in Restore, RestoreMark(r) \/ RestoreOpen(r) \/ RestoreFiles(r) \/ RestoreSave(r) PROVE IInv'
  <2>1. /\ UNCHANGED <<left, aside, disk>> /\ excuse \subseteq excuse'
    BY <1>3 DEF RestoreMark, RestoreOpen, RestoreFiles, RestoreSave, Save
  <2>2. \/ Pc(r) = "mark" /\ Moves(r, {"open"})
        \/ Pc(r) = "open" /\ Moves(r, {"rename", "save"})
        \/ Pc(r) = "files" /\ Moves(r, {"save"})
        \/ Pc(r) = "save" /\ Moves(r, {"idle"})
    <3>1. CASE RestoreMark(r)
      BY <1>1, <3>1 DEF RestoreMark, Moves, Pc
    <3>2. CASE RestoreOpen(r)
      <4>1. CASE Fails(r)
        BY <3>2, <4>1, FailsMoves DEF RestoreOpen, Moves, Pc, IInv
      <4>2. CASE restore' = [restore EXCEPT ![r].pc = "rename", ![r].copy = archive[second[restore[r].row.stamp]]]
        BY <3>2, <4>2, GoesMoves DEF RestoreOpen, Moves, Pc, IInv
      <4> QED
        BY <3>2, <4>1, <4>2 DEF RestoreOpen
    <3>3. CASE RestoreFiles(r)
      <4>1. CASE Fails(r)
        BY <3>3, <4>1, FailsMoves DEF RestoreFiles, Moves, Pc, IInv
      <4>2. CASE restore' = [restore EXCEPT ![r].pc = "save", ![r].row.status = "completed"]
        BY <3>3, <4>2, GoesMoves DEF RestoreFiles, Moves, Pc, IInv
      <4> QED
        BY <3>3, <4>1, <4>2 DEF RestoreFiles
    <3>4. CASE RestoreSave(r)
      BY <1>1, <3>4 DEF RestoreSave, Idle, Moves, Pc
    <3> QED
      BY <1>3, <3>1, <3>2, <3>3, <3>4
  <2> QED
    BY <2>1, <2>2, StageInv DEF Moves
<1> QED
  BY <1>2, <1>3, RenameInv, CopyInv, VerifyInv DEF RestoreBackup

\* A process that starts has a whole file at the path, and no restore at work.
LEMMA RestartInv ==
  ASSUME Parameters, IInv, NEW old \in aged..stamps, Restart(old)
  PROVE  IInv'
<1>1. left \in Nat /\ left' = left - 1 /\ left > 0 /\ aside' = aside /\ disk' = Live
  BY DEF Restart, Spend, IInv, Shape
<1>2. DOMAIN restore' = Restore /\ \A r \in Restore : Pc(r)' = "idle"
  BY DEF Restart, Idle, Pc
<1>3. Shape'
  BY <1>1, <1>2, BackupsAssumption DEF IInv, Shape
<1>4. \A r \in Restore : r \in Nat
  BY DEF Restore
<1>5. FreshInv'
  BY <1>1, <1>2, <1>4 DEF IInv, SafeInv, FreshInv
<1> QED
  BY <1>1, <1>2, <1>3, <1>5 DEF Parameters, IInv, SafeInv, AloneInv, AsideInv, Whole

LEMMA NextInv == Parameters /\ IInv /\ [Next]_vars => IInv'
<1> SUFFICES ASSUME Parameters, IInv, [Next]_vars PROVE IInv'
  OBVIOUS
<1>1. CASE UNCHANGED vars
  <2>1. UNCHANGED <<restore, aside, disk, left, excuse>> /\ left \in 0..MaxEvents /\ left <= left
    BY <1>1, BackupsAssumption DEF vars, IInv, Shape
  <2> QED
    BY <2>1, AsideOfOthers
<1> QED
  BY <1>1, OthersInv, StepsInv, RestartInv DEF Next

LEMMA InitInv == Parameters /\ Init => IInv
<1> SUFFICES ASSUME Parameters, Init PROVE IInv
  OBVIOUS
<1>1. Shape
  BY BackupsAssumption DEF Init, Shape
<1>2. \A r \in Restore : Pc(r) = "idle" /\ aside[r] = None
  BY DEF Init, Idle, Pc
<1>3. Whole(disk)
  BY DEF Init, Parameters, Whole
<1> QED
  BY <1>1, <1>2, <1>3 DEF IInv, SafeInv, FreshInv, AloneInv, AsideInv

-----------------------------------------------------------------------------
(* Archives.                                                               *)

\* The panel came up with another database, which gives ids again.
Reborn == "restored" \in excuse

\* That, or a restart cut a removal in two, or a save brought back a row.
Voided == excuse \cap {"resurrected", "interrupted", "restored"} # {}

Making == {"read", "run", "dump", "pack", "save"}

\* The goroutine that makes backup i has come to its end.
Made(i) == i <= stamps /\ job[i].pc \notin Making

\* A row, or a copy of one that somebody read, of backup i.
RowOk(i, row) ==
  /\ row \in Row /\ row.stamp = i /\ i <= stamps
  /\ row.status \in {"completed", "restoring"} => i \in done
  /\ row.enc => Made(i)

TableInv ==
  /\ stamps \in 0..MaxBackups /\ next = stamps + 1 /\ done \subseteq Stamp
  /\ table \in [Id -> Row \cup {None}]
  /\ \A i \in Id : table[i] # None => RowOk(i, table[i])

\* What a rotation is to remove.
ListOk(list) == list # {} /\ \A e \in list : e[1] \in done /\ e[2].stamp = e[1]

\* The archive of backup s is there, as far as it is its own.
Kept(s) == Shared(s) \/ archive[second[s]] # None

FilesInv ==
  /\ DOMAIN archive = Stamp /\ second \in [Stamp -> Stamp]
  /\ \A s \in Stamp : second[s] <= s /\ (s > stamps => second[s] = s)

JobOk(s) ==
  LET pc == job[s].pc  row == job[s].row IN
  /\ pc # "idle" => s <= stamps /\ job[s].id = s
  /\ pc \in Making => s \notin done
  /\ pc \in Making \ {"read"} => row \in Row /\ row.stamp = s
  /\ pc \in {"run", "dump", "pack"} => row.status \notin {"completed", "restoring"} /\ ~row.enc
  /\ pc = "pack" => job[s].copy # None
  /\ pc = "save" => /\ row.status \in {"completed", "failed"}
                    /\ row.status = "completed" => Kept(s)
  /\ pc \in {"file", "row"} => ListOk(job[s].list)

JobInv == DOMAIN job = Stamp /\ \A s \in Stamp : JobOk(s)

DoneInv == \A i \in done : Made(i)

RestoreInv == \A r \in Restore : Pc(r) # "idle" => restore[r].id \in done /\ RowOk(restore[r].id, restore[r].row)

DeleteInv == deleting.pc # "idle" => deleting.id \in Id /\ RowOk(deleting.id, deleting.row)

SchedInv == /\ sched.cron \in Crons \cup {None}
            /\ sched.pc = "save" => sched.id \in Id /\ RowOk(sched.id, sched.row)

CopiesInv == DOMAIN restore = Restore /\ RestoreInv /\ DeleteInv /\ SchedInv

Removing(i) == \/ \E s \in Stamp : job[s].pc = "row" /\ Head(job[s].list)[1] = i
               \/ deleting.pc = "row" /\ deleting.id = i

KeptInv == \A i \in done : table[i] # None => Kept(i) \/ Removing(i)

\* What holds until the panel comes up with another database.
TracksInv == TableInv /\ JobInv /\ DoneInv /\ CopiesInv /\ FilesInv

FullInv == TracksInv /\ (Voided \/ KeptInv)

\* A record is not the model value that stands for nothing.
Copies == None \notin Dump \cup Row \cup {Broken} /\ Parameters

LEMMA Ids == Id = Stamp /\ \A i \in Id : i \in Nat /\ i >= 1
BY BackupsAssumption DEF Id, Stamp

LEMMA IdleIs == Idle.pc = "idle" /\ IdleSched.pc = "idle"
BY DEF Idle, IdleSched

LEMMA Least ==
  ASSUME NEW T, T \subseteq Nat, T # {}
  PROVE  \E x \in T : \A y \in T : x <= y
<1> DEFINE R == OpToRel(<, Nat)
<1>1. IsWellFoundedOn(R, Nat)
  BY NatLessThanWellFounded
<1>2. \A x, y \in Nat : x < y => <<x, y>> \in R
  BY DEF OpToRel
<1> HIDE DEF R
<1>3. PICK x \in T : \A y \in T : ~(<<y, x>> \in R)
  BY <1>1, WFMin
<1>4. ASSUME NEW y \in T PROVE x <= y
  <2>1. x \in Nat /\ y \in Nat
    OBVIOUS
  <2>2. ~(y < x)
    BY <1>2, <1>3, <2>1
  <2> QED
    BY <2>1, <2>2
<1> QED
  BY <1>4

\* A finite set of stamps has a greatest one.
LEMMA MaxIn ==
  ASSUME NEW f, NEW S, S # {}, \A i \in S : f[i] \in Stamp
  PROVE  \E i \in S : \A j \in S : f[j] <= f[i]
<1> DEFINE T == {MaxBackups - f[i] : i \in S}
<1>1. T \subseteq Nat /\ T # {}
  BY BackupsAssumption DEF Stamp
<1>2. PICK x \in T : \A y \in T : x <= y
  BY <1>1, Least
<1>3. PICK i \in S : x = MaxBackups - f[i]
  OBVIOUS
<1>4. ASSUME NEW j \in S PROVE f[j] <= f[i]
  <2>1. MaxBackups - f[i] <= MaxBackups - f[j]
    BY <1>2, <1>3
  <2>2. f[j] \in Int /\ f[i] \in Int /\ MaxBackups \in Int
    BY BackupsAssumption DEF Stamp
  <2> QED
    BY <2>1, <2>2
<1> QED
  BY <1>4

\* What a rotation removes next is one of what it is to remove.
LEMMA HeadIn ==
  ASSUME NEW list, list # {}, \A e \in list : e[2].stamp \in Stamp
  PROVE  Head(list) \in list
<1>1. PICK f : f = [e \in list |-> e[2].stamp]
  OBVIOUS
<1>2. \A e \in list : f[e] = e[2].stamp /\ f[e] \in Stamp
  BY <1>1
<1>3. \E e \in list : \A d \in list : f[d] <= f[e]
  BY <1>2, MaxIn
<1>4. \E e \in list : \A d \in list : d[2].stamp <= e[2].stamp
  BY <1>2, <1>3
<1> QED
  BY <1>4 DEF Head

LEMMA HeadOk ==
  ASSUME TableInv, NEW list, ListOk(list)
  PROVE  Head(list) \in list /\ Head(list)[1] \in done /\ Head(list)[2].stamp = Head(list)[1]
<1>1. \A e \in list : e[2].stamp \in Stamp
  BY DEF TableInv, ListOk
<1>2. Head(list) \in list
  BY <1>1, HeadIn DEF ListOk
<1> QED
  BY <1>2 DEF ListOk

LEMMA NewIs ==
  ASSUME stamps \in 0..MaxBackups, stamps < MaxBackups
  PROVE  /\ New \in Row /\ New.stamp = stamps + 1 /\ New.status = "pending" /\ ~New.enc
         /\ \A c \in Crons \cup {None} : LET row == [New EXCEPT !.cron = c] IN
              row \in Row /\ row.stamp = stamps + 1 /\ row.status = "pending" /\ ~row.enc
<1>1. stamps + 1 \in Stamp
  BY BackupsAssumption DEF Stamp
<1>2. New \in Row /\ New.stamp = stamps + 1 /\ New.status = "pending" /\ ~New.enc
  BY <1>1 DEF New, Row, Status
<1>3. ASSUME NEW c \in Crons \cup {None}
      PROVE  LET row == [New EXCEPT !.cron = c] IN
              row \in Row /\ row.stamp = stamps + 1 /\ row.status = "pending" /\ ~row.enc
  <2> DEFINE new == New
  <2>1. new \in Row /\ new.stamp = stamps + 1 /\ new.status = "pending" /\ ~new.enc
    BY <1>2
  <2> HIDE DEF new
  <2>2. LET row == [new EXCEPT !.cron = c] IN
          row \in Row /\ row.stamp = stamps + 1 /\ row.status = "pending" /\ ~row.enc
    BY <2>1 DEF Row
  <2> QED
    BY <2>2 DEF new
<1> QED
  BY <1>2, <1>3

-----------------------------------------------------------------------------
(* What keeps the invariant of those a step does not touch.                *)

\* No backup is made again.
Steady == /\ done \subseteq done' /\ stamps \in Nat /\ stamps' \in Nat /\ stamps <= stamps'
          /\ \A i \in Id : Made(i) => Made(i)'

LEMMA RowStays ==
  ASSUME Steady, NEW i \in Id, NEW row, RowOk(i, row)
  PROVE  RowOk(i, row)'
BY Ids DEF Steady, RowOk

LEMMA TableStays ==
  ASSUME TableInv, Steady, UNCHANGED <<table, next, stamps>>, done' \subseteq Stamp
  PROVE  TableInv'
<1>1. \A i \in Id : table[i] # None => RowOk(i, table[i])'
  BY RowStays DEF TableInv
<1> QED
  BY <1>1 DEF TableInv

LEMMA TableSaved ==
  ASSUME TableInv, Steady, UNCHANGED <<next, stamps>>, done' \subseteq Stamp,
         NEW i \in Id, NEW old, NEW new, Save(i, old, new), RowOk(i, new)'
  PROVE  TableInv' /\ (Voided' \/ \A j \in Id : table'[j] # None => table[j] # None)
<1>1. table' = [table EXCEPT ![i] = new]
  BY DEF Save
<1>2. Voided' \/ table[i] # None
  BY DEF Save, Voided
<1>3. new \in Row
  BY DEF RowOk
<1>4. \A j \in Id : \A row : row = table[j] /\ row # None => RowOk(j, row)'
  BY RowStays DEF TableInv
<1>5. table' \in [Id -> Row \cup {None}]
  BY <1>1, <1>3 DEF TableInv
<1>6. \A j \in Id : table'[j] = IF j = i THEN new ELSE table[j]
  BY <1>1 DEF TableInv
<1>7. \A j \in Id : \A row : row = table'[j] /\ row # None => RowOk(j, row)'
  BY <1>4, <1>6
<1>8. TableInv'
  BY <1>5, <1>7 DEF TableInv
<1> QED
  BY <1>2, <1>6, <1>8

LEMMA TableErased ==
  ASSUME TableInv, Steady, UNCHANGED <<next, stamps, done>>, NEW i \in Id, table' = [table EXCEPT ![i] = None]
  PROVE  TableInv' /\ table'[i] = None /\ \A j \in Id : table'[j] # None => table[j] # None
<1>1. \A j \in Id : \A row : row = table[j] /\ row # None => RowOk(j, row)'
  BY RowStays DEF TableInv
<1>2. table' \in [Id -> Row \cup {None}] /\ \A j \in Id : table'[j] = IF j = i THEN None ELSE table[j]
  BY DEF TableInv
<1>3. \A j \in Id : \A row : row = table'[j] /\ row # None => RowOk(j, row)'
  BY <1>1, <1>2 DEF TableInv
<1>4. TableInv'
  BY <1>2, <1>3 DEF TableInv
<1> QED
  BY <1>2, <1>4

LEMMA RestoresStay ==
  ASSUME RestoreInv, TableInv, Steady, UNCHANGED restore
  PROVE  RestoreInv'
<1>1. ASSUME NEW r \in Restore, Pc(r) # "idle"
      PROVE  restore[r].id \in done' /\ RowOk(restore[r].id, restore[r].row)'
  <2>1. restore[r].id \in Id
    BY <1>1, Ids DEF RestoreInv, TableInv
  <2> QED
    BY <1>1, <2>1, RowStays DEF RestoreInv, Steady
<1> QED
  BY <1>1 DEF RestoreInv, Pc

LEMMA CopiesStay ==
  ASSUME CopiesInv, TableInv, Steady, UNCHANGED <<restore, deleting, sched>>
  PROVE  CopiesInv'
<1>1. RestoreInv'
  BY RestoresStay DEF CopiesInv
<1>2. DeleteInv' /\ SchedInv'
  BY RowStays DEF CopiesInv, DeleteInv, SchedInv
<1> QED
  BY <1>1, <1>2 DEF CopiesInv

\* No archive of a backup that is being made goes.
ArchivesStay == FilesInv' /\ \A s \in Stamp : Kept(s) => Kept(s)' \/ Made(s)

LEMMA KeptSame == UNCHANGED <<second, archive>> => \A s : Kept(s)' <=> Kept(s)
BY DEF Kept, Shared

LEMMA FilesStay ==
  ASSUME FilesInv, UNCHANGED <<second, archive>>, stamps \in Nat, stamps' \in Nat, stamps <= stamps'
  PROVE  ArchivesStay
<1>1. FilesInv'
  BY Ids DEF FilesInv
<1> QED
  BY <1>1, KeptSame DEF ArchivesStay

LEMMA FilesSame == FilesInv /\ UNCHANGED <<second, archive, stamps>> => ArchivesStay
BY KeptSame DEF FilesInv, ArchivesStay

\* A step that writes or removes the archive of backup i.
LEMMA FileSet ==
  ASSUME FilesInv, UNCHANGED <<second, stamps>>, NEW i \in Stamp, NEW file, archive' = [archive EXCEPT ![second[i]] = file]
  PROVE  /\ FilesInv' /\ archive'[second[i]] = file
         /\ \A s \in Stamp : Kept(s) => Kept(s)' \/ (s = i /\ file = None)
<1>1. FilesInv' /\ archive'[second[i]] = file /\ second[i] \in Stamp
  BY DEF FilesInv
<1>2. ASSUME NEW s \in Stamp, Kept(s), s # i PROVE Kept(s)'
  <2>1. CASE second[s] = second[i]
    BY <1>2, <2>1 DEF Kept, Shared
  <2>2. CASE second[s] # second[i]
    <3>1. archive'[second[s]] = archive[second[s]]
      BY <1>1, <2>2 DEF FilesInv
    <3>2. Shared(s)' <=> Shared(s)
      BY DEF Shared
    <3> QED
      BY <1>2, <3>1, <3>2 DEF Kept
  <2> QED
    BY <2>1, <2>2
<1>3. file # None => Kept(i)'
  BY <1>1 DEF Kept
<1> QED
  BY <1>1, <1>2, <1>3

LEMMA ListStays ==
  ASSUME done \subseteq done', NEW list, ListOk(list)
  PROVE  ListOk(list)'
BY DEF ListOk

\* The jobs that a step leaves alone.
LEMMA JobStays ==
  ASSUME JobInv, DoneInv, NEW s \in Stamp, job'[s] = job[s], stamps \in Nat, stamps' \in Nat, stamps <= stamps',
         done \subseteq done', s \in done' => s \in done \/ job[s].pc \notin Making, ArchivesStay
  PROVE  JobOk(s)' /\ (Made(s) => Made(s)')
<1>1. JobOk(s)
  BY DEF JobInv
<1>2. s \in Nat
  BY Ids
<1>3. Made(s) => Made(s)'
  BY <1>2 DEF Made
<1>4. job[s].pc = "save" => ~Made(s)
  BY DEF Made, Making
<1>5. ListOk(job[s].list) => ListOk(job[s].list)'
  BY ListStays
<1>6. (job[s].pc # "idle") => (s <= stamps' /\ job'[s].id = s)
  BY <1>1, <1>2 DEF JobOk
<1> QED
  BY <1>1, <1>3, <1>4, <1>5, <1>6 DEF JobOk, ArchivesStay

LEMMA JobsStay ==
  ASSUME JobInv, DoneInv, TableInv, UNCHANGED <<job, done>>, stamps' \in Nat, stamps <= stamps', ArchivesStay
  PROVE  JobInv' /\ DoneInv' /\ Steady
<1>1. \A s \in Stamp : JobOk(s)' /\ (Made(s) => Made(s)')
  BY JobStays DEF TableInv
<1>2. done \subseteq Stamp /\ stamps \in Nat
  BY DEF TableInv
<1> QED
  BY <1>1, <1>2, Ids DEF JobInv, DoneInv, Steady

LEMMA KeptStays ==
  ASSUME KeptInv, TableInv, UNCHANGED <<second, archive, done, job>>, UNCHANGED deleting \/ deleting.pc # "row",
         \A i \in Id : table'[i] # None => table[i] # None
  PROVE  KeptInv'
<1>1. \A i : Removing(i) => Removing(i)'
  BY DEF Removing
<1> QED
  BY <1>1, KeptSame, Ids DEF KeptInv, TableInv

\* A row made with the next id.
LEMMA RowMade ==
  ASSUME TableInv, Steady, UNCHANGED done, NEW row, Insert(row), row \in Row, row.stamp = stamps + 1,
         row.status = "pending", ~row.enc
  PROVE  /\ TableInv' /\ stamps' = stamps + 1 /\ stamps + 1 \in Stamp
         /\ \A i \in Id : i <= stamps => table'[i] = table[i]
<1>1. /\ stamps < MaxBackups /\ table' = [table EXCEPT ![stamps + 1] = row] /\ next' = next + 1
      /\ stamps' = stamps + 1
  BY DEF Insert, TableInv
<1>2. /\ stamps + 1 \in Id /\ stamps' \in 0..MaxBackups
      /\ \A i \in Id : i <= stamps => i # stamps + 1 /\ i <= stamps'
  BY <1>1, BackupsAssumption DEF TableInv, Id
<1>3. table' \in [Id -> Row \cup {None}] /\ \A i \in Id : table'[i] = IF i = stamps + 1 THEN row ELSE table[i]
  BY <1>1, <1>2 DEF TableInv
<1>4. \A i \in Id : \A old : old = table[i] /\ old # None => RowOk(i, old)'
  BY RowStays DEF TableInv
<1>5. \A i \in Id : \A new : new = table'[i] /\ new # None => RowOk(i, new)'
  <2> SUFFICES ASSUME NEW i \in Id, NEW new, new = table'[i], new # None PROVE RowOk(i, new)'
    OBVIOUS
  <2>1. CASE i = stamps + 1
    <3>1. new = row /\ i \in Nat /\ i <= stamps'
      BY <1>1, <1>2, <1>3, <2>1 DEF TableInv
    <3>2. RowOk(i, row)'
      BY <2>1, <3>1 DEF RowOk
    <3> QED
      BY <3>1, <3>2
  <2>2. CASE i # stamps + 1
    BY <1>2, <1>3, <1>4, <2>2 DEF TableInv
  <2> QED
    BY <2>1, <2>2
<1>6. TableInv'
  BY <1>1, <1>2, <1>3, <1>5 DEF TableInv
<1> QED
  BY <1>1, <1>2, <1>3, <1>6, Ids

-----------------------------------------------------------------------------
(* Making a backup.                                                        *)

\* A backup asked for in the second of the one before it.
LEMMA SecondTaken ==
  ASSUME FilesInv, UNCHANGED archive, stamps \in Nat, NEW m \in Stamp, NEW n \in Stamp, m = stamps, n = stamps + 1,
         stamps' = n, second' = [second EXCEPT ![n] = second[m]]
  PROVE  FilesInv' /\ \A s \in Stamp : Kept(s) => Kept(s)'
<1>1. m \in Nat /\ n \in Nat /\ second[m] \in Nat /\ \A s \in Stamp : s \in Nat /\ second[s] \in Nat
  BY Ids DEF FilesInv
<1>2. DOMAIN second = Stamp /\ second'[n] = second[m] /\ \A s \in Stamp : s # n => second'[s] = second[s]
  BY DEF FilesInv
<1>3. FilesInv'
  BY <1>1, <1>2 DEF FilesInv
<1>4. Kept(n)'
  <2>1. m \in Stamp \ {n} /\ second'[m] = second'[n]
    BY <1>1, <1>2
  <2> QED
    BY <2>1 DEF Kept, Shared
<1>5. ASSUME NEW s \in Stamp, s # n, Kept(s) PROVE Kept(s)'
  <2>1. ASSUME NEW q \in Stamp \ {s}, second[q] = second[s] PROVE q # n
    BY <1>1, <1>5, <2>1 DEF FilesInv
  <2>2. Shared(s) => Shared(s)'
    BY <1>2, <1>5, <2>1 DEF Shared
  <2> QED
    BY <1>2, <1>5, <2>2 DEF Kept
<1> QED
  BY <1>3, <1>4, <1>5

LEMMA CreateFull ==
  ASSUME FullInv, CreateBackup, Voided => Voided'
  PROVE  FullInv'
<1> USE DEF FullInv, TracksInv
<1>1. /\ Insert(New) /\ stamps < MaxBackups /\ stamps' = stamps + 1 /\ next = stamps + 1
      /\ UNCHANGED <<archive, restore, deleting, done, sched>>
      /\ \/ UNCHANGED second
         \/ stamps \in Stamp /\ second' = [second EXCEPT ![stamps + 1] = second[stamps]]
      /\ job' = [job EXCEPT ![stamps + 1] = [Idle EXCEPT !.pc = "read", !.id = next]]
  BY DEF CreateBackup, Insert, TableInv, timer
<1>2. PICK n \in Stamp : n = stamps + 1
  BY <1>1, BackupsAssumption DEF TableInv, Stamp
<1>3. stamps \in Nat /\ n \in Nat /\ ~(n <= stamps) /\ n <= stamps'
  BY <1>1, <1>2 DEF TableInv
<1>4. job[n].pc = "idle" /\ n \notin done
  BY <1>3 DEF JobInv, JobOk, DoneInv, Made
<1>5. /\ DOMAIN job' = Stamp /\ job'[n].pc = "read" /\ job'[n].id = n
      /\ \A q \in Stamp \ {n} : job'[q] = job[q]
  BY <1>1, <1>2 DEF JobInv, Idle
<1>6. FilesInv' /\ (\A q \in Stamp : Kept(q) => Kept(q)') /\ ArchivesStay
  <2>1. CASE UNCHANGED second
    BY <1>1, <1>3, <2>1, FilesStay, KeptSame DEF ArchivesStay
  <2>2. ASSUME NEW m \in Stamp, m = stamps, second' = [second EXCEPT ![n] = second[m]]
        PROVE  FilesInv' /\ \A q \in Stamp : Kept(q) => Kept(q)'
    BY <1>1, <1>2, <1>3, <2>2, SecondTaken
  <2> QED
    BY <1>1, <1>2, <2>1, <2>2 DEF ArchivesStay
<1>7. \A q \in Stamp \ {n} : JobOk(q)' /\ (Made(q) => Made(q)')
  BY <1>1, <1>3, <1>5, <1>6, JobStays
<1>8. JobOk(n)' /\ ~Made(n)
  BY <1>1, <1>3, <1>4, <1>5 DEF JobOk, Made, Making
<1>9. JobInv' /\ DoneInv' /\ Steady
  <2>1. JobInv'
    BY <1>5, <1>7, <1>8 DEF JobInv
  <2>2. Steady
    BY <1>1, <1>3, <1>7, <1>8, Ids DEF Steady
  <2>3. done \subseteq Stamp
    BY DEF TableInv
  <2> QED
    BY <1>1, <2>1, <2>2, <2>3, Ids DEF DoneInv, Steady
<1>10. TableInv' /\ \A i \in Id : i <= stamps => table'[i] = table[i]
  <2>1. New \in Row /\ New.stamp = stamps + 1 /\ New.status = "pending" /\ ~New.enc
    BY <1>1, NewIs DEF TableInv
  <2>2. PICK row : row = New
    OBVIOUS
  <2> QED
    BY <1>1, <1>9, <2>1, <2>2, RowMade DEF Insert
<1>11. CopiesInv'
  BY <1>1, <1>9, CopiesStay
<1>12. Voided' \/ KeptInv'
  <2>1. \A i : Removing(i) => Removing(i)'
    BY <1>1, <1>4, <1>5 DEF Removing
  <2>2. \A i \in done : i \in Id /\ i <= stamps
    BY Ids DEF TableInv, DoneInv, Made
  <2> QED
    BY <1>1, <1>6, <1>10, <2>1, <2>2, Ids DEF KeptInv
<1> QED
  BY <1>6, <1>9, <1>10, <1>11, <1>12 DEF ArchivesStay

\* A step of one job.
LEMMA JobMoves ==
  ASSUME FullInv, NEW s \in Stamp, job[s].pc # "idle", DOMAIN job' = Stamp,
         \A q \in Stamp \ {s} : job'[q] = job[q],
         UNCHANGED stamps, done' = done \/ done' = done \cup {s}, ArchivesStay, JobOk(s)',
         job[s].pc \notin Making => job'[s].pc \notin Making
  PROVE  JobInv' /\ DoneInv' /\ Steady /\ done' \subseteq Stamp
<1> USE DEF FullInv, TracksInv
<1>1. stamps \in Nat /\ s <= stamps /\ done' \subseteq Stamp /\ done \subseteq Stamp
  BY DEF TableInv, JobInv, JobOk
<1>2. \A q \in Stamp \ {s} : JobOk(q)' /\ (Made(q) => Made(q)')
  BY <1>1, JobStays
<1>3. Made(s) => Made(s)'
  BY DEF Made
<1>4. JobInv' /\ Steady
  BY <1>1, <1>2, <1>3, Ids DEF JobInv, Steady
<1>5. s \in done' => Made(s)'
  BY <1>1 DEF JobOk, Made
<1>6. \A i \in done' \ {s} : Made(i)'
  BY <1>1, <1>2 DEF DoneInv
<1> QED
  BY <1>1, <1>4, <1>5, <1>6 DEF DoneInv

\* A copy of the database is something.
LEMMA CopyIsSome ==
  ASSUME Copies, TableInv
  PROVE  [table |-> table, next |-> next] # None
<1>1. next \in 1..(MaxBackups + 1)
  BY BackupsAssumption DEF TableInv
<1>2. [table |-> table, next |-> next] \in Dump
  BY <1>1 DEF TableInv, Dump
<1> QED
  BY <1>2 DEF Copies

LEMMA ReadOk ==
  ASSUME FullInv, NEW s \in Stamp, JobRead(s)
  PROVE  JobOk(s)'
<1> USE DEF FullInv, TracksInv
<1>1. /\ JobOk(s) /\ DOMAIN job = Stamp /\ s <= stamps /\ job[s].id = s /\ s \notin done /\ s \in Id
      /\ UNCHANGED <<table, stamps, done, archive>> /\ job[s].pc = "read"
  BY Ids DEF JobInv, JobOk, JobRead, JobUnchanged, Making
<1>2. CASE table[s] = None
  <2>1. job'[s] = Idle
    BY <1>1, <1>2 DEF JobRead
  <2> QED
    BY <2>1, IdleIs DEF JobOk, Making
<1>3. CASE table[s] # None
  <2>1. job'[s].pc = "run" /\ job'[s].id = s /\ job'[s].row = table[s]
    BY <1>1, <1>3 DEF JobRead
  <2>2. RowOk(s, table[s]) /\ ~Made(s)
    BY <1>1, <1>3 DEF TableInv, Made, Making
  <2> QED
    BY <1>1, <2>1, <2>2 DEF JobOk, RowOk, Making
<1> QED
  BY <1>2, <1>3

LEMMA FailedOk ==
  ASSUME JobInv, NEW s \in Stamp, job[s].pc \in {"dump", "pack"}, UNCHANGED <<stamps, done>>,
         job'[s].pc = "save", job'[s].id = job[s].id, job'[s].row = [job[s].row EXCEPT !.status = "failed"]
  PROVE  JobOk(s)'
<1>1. /\ JobOk(s) /\ s <= stamps /\ job[s].id = s /\ s \notin done
      /\ job[s].row \in Row /\ job[s].row.stamp = s
  BY DEF JobInv, JobOk, Making
<1>2. job'[s].row \in Row /\ job'[s].row.stamp = s /\ job'[s].row.status = "failed"
  <2>1. PICK row \in Row : row = job[s].row
    BY <1>1
  <2> QED
    BY <1>1, <2>1 DEF Row, Status
<1> QED
  BY <1>1, <1>2 DEF JobOk, Making

LEMMA DumpOk ==
  ASSUME Copies, FullInv, NEW s \in Stamp, DumpDatabase(s)
  PROVE  JobOk(s)'
<1> USE DEF FullInv, TracksInv
<1>1. /\ JobOk(s) /\ DOMAIN job = Stamp /\ UNCHANGED <<stamps, done, archive>> /\ job[s].pc = "dump"
  BY DEF JobInv, DumpDatabase, JobUnchanged
<1>2. CASE job' = [job EXCEPT ![s].pc = "save", ![s].row.status = "failed"]
  <2>1. job'[s].pc = "save" /\ job'[s].id = job[s].id /\ job'[s].row = [job[s].row EXCEPT !.status = "failed"]
    BY <1>1, <1>2
  <2> QED
    BY <1>1, <2>1, FailedOk
<1>3. CASE \E copy : copy # None /\ job' = [job EXCEPT ![s].pc = "pack", ![s].copy = copy]
  <2>1. job'[s].pc = "pack" /\ job'[s].id = job[s].id /\ job'[s].row = job[s].row /\ job'[s].copy # None
    BY <1>1, <1>3
  <2> QED
    BY <1>1, <2>1 DEF JobOk, Making
<1> QED
  BY <1>2, <1>3, CopyIsSome DEF DumpDatabase

LEMMA MixOk ==
  ASSUME Copies, FullInv, NEW s \in Stamp, Mix(s)
  PROVE  JobOk(s)'
<1> USE DEF FullInv, TracksInv
<1>1. JobOk(s) /\ DOMAIN job = Stamp /\ UNCHANGED <<stamps, done>> /\ job[s].pc = "pack" /\ Broken # None
  BY DEF JobInv, JobOk, Mix, JobUnchanged, Copies
<1>2. job'[s].pc = "pack" /\ job'[s].id = job[s].id /\ job'[s].row = job[s].row /\ job'[s].copy # None
  BY <1>1 DEF Mix
<1> QED
  BY <1>1, <1>2 DEF JobOk, Making

LEMMA PackOk ==
  ASSUME Copies, FullInv, NEW s \in Stamp, Pack(s)
  PROVE  JobOk(s)' /\ FilesInv' /\ \A q \in Stamp : Kept(q) => Kept(q)'
<1> USE DEF FullInv, TracksInv
<1>1. /\ JobOk(s) /\ DOMAIN job = Stamp /\ UNCHANGED <<stamps, second, done>> /\ job[s].pc = "pack"
      /\ job[s].copy # None /\ Broken # None
  BY DEF JobInv, JobOk, Pack, JobUnchanged, Copies
<1>2. ASSUME archive' \in {archive, [archive EXCEPT ![second[s]] = Broken]},
             job' = [job EXCEPT ![s].pc = "save", ![s].copy = None, ![s].row.status = "failed"]
      PROVE  JobOk(s)' /\ FilesInv' /\ \A q \in Stamp : Kept(q) => Kept(q)'
  <2>1. job'[s].pc = "save" /\ job'[s].id = job[s].id /\ job'[s].row = [job[s].row EXCEPT !.status = "failed"]
    BY <1>1, <1>2
  <2>2. JobOk(s)'
    BY <1>1, <2>1, FailedOk
  <2>3. CASE UNCHANGED archive
    <3>1. FilesInv'
      BY <1>1, <2>3 DEF FilesInv
    <3> QED
      BY <1>1, <2>2, <2>3, <3>1, KeptSame
  <2>4. CASE archive' = [archive EXCEPT ![second[s]] = Broken]
    BY <1>1, <2>2, <2>4, FileSet
  <2> QED
    BY <1>2, <2>3, <2>4
<1>3. ASSUME NEW ok \in {"completed", "failed"}, archive' = [archive EXCEPT ![second[s]] = job[s].copy],
             job' = [job EXCEPT ![s].pc = "save", ![s].copy = None, ![s].row.enc = TRUE, ![s].row.status = ok]
      PROVE  JobOk(s)' /\ FilesInv' /\ \A q \in Stamp : Kept(q) => Kept(q)'
  <2>1. /\ job'[s].pc = "save" /\ job'[s].id = job[s].id
        /\ job'[s].row = [job[s].row EXCEPT !.enc = TRUE, !.status = ok]
    BY <1>1, <1>3
  <2>2. job[s].row \in Row /\ job[s].row.stamp = s /\ s <= stamps /\ job[s].id = s /\ s \notin done
    BY <1>1 DEF JobOk, Making
  <2>3. job'[s].row \in Row /\ job'[s].row.stamp = s /\ job'[s].row.status = ok
    <3>1. PICK row \in Row : row = job[s].row
      BY <2>2
    <3> QED
      BY <2>1, <2>2, <3>1 DEF Row, Status
  <2>4. PICK copy : copy = job[s].copy
    OBVIOUS
  <2>5. FilesInv' /\ archive'[second[s]] = copy /\ \A q \in Stamp : Kept(q) => Kept(q)'
    BY <1>1, <1>3, <2>4, FileSet
  <2>6. Kept(s)'
    BY <1>1, <2>4, <2>5 DEF Kept
  <2>7. JobOk(s)'
    BY <1>1, <2>1, <2>2, <2>3, <2>6 DEF JobOk, Making
  <2> QED
    BY <2>5, <2>7
<1> QED
  BY <1>2, <1>3 DEF Pack

LEMMA ListedOk ==
  ASSUME FullInv, NEW s \in Stamp, RotateList(s)
  PROVE  JobOk(s)'
<1> USE DEF FullInv, TracksInv
<1>1. /\ JobOk(s) /\ DOMAIN job = Stamp /\ UNCHANGED <<table, stamps, done, archive>> /\ job[s].pc = "list"
      /\ s <= stamps /\ job[s].id = s
  BY DEF JobInv, JobOk, RotateList, JobUnchanged
<1>2. CASE Beyond = {}
  <2>1. job'[s] = Idle
    BY <1>1, <1>2 DEF RotateList
  <2> QED
    BY <2>1, IdleIs DEF JobOk, Making
<1>3. CASE Beyond # {}
  <2>1. job'[s].pc = "file" /\ job'[s].id = s /\ job'[s].list = {<<i, table[i]>> : i \in Beyond}
    BY <1>1, <1>3 DEF RotateList
  <2>2. \A i \in Beyond : i \in done' /\ table[i].stamp = i
    BY <1>1 DEF Beyond, Having, Rows, TableInv, RowOk
  <2>3. ListOk(job[s].list)'
    <3>1. job'[s].list # {}
      BY <1>3, <2>1
    <3>2. ASSUME NEW e \in job'[s].list PROVE e[1] \in done' /\ e[2].stamp = e[1]
      <4>1. PICK i \in Beyond : e = <<i, table[i]>>
        BY <2>1
      <4> QED
        BY <2>2, <4>1
    <3> QED
      BY <3>1, <3>2 DEF ListOk
  <2> QED
    BY <1>1, <2>1, <2>3 DEF JobOk, Making
<1> QED
  BY <1>2, <1>3

\* Steps of a job that save and remove nothing.
LEMMA JobThinks ==
  ASSUME Copies, FullInv, NEW s \in Stamp, JobRead(s) \/ DumpDatabase(s) \/ Mix(s) \/ Pack(s) \/ RotateList(s),
         Voided => Voided'
  PROVE  FullInv'
<1> USE DEF FullInv, TracksInv
<1>1. /\ UNCHANGED <<table, next, stamps, restore, deleting, sched, done>>
      /\ job[s].pc \in {"read", "dump", "pack", "list"}
  BY DEF JobRead, DumpDatabase, Mix, Pack, RotateList, JobUnchanged, timer
<1>2. FilesInv' /\ \A q \in Stamp : Kept(q) => Kept(q)'
  <2>1. CASE Pack(s)
    BY <2>1, PackOk
  <2>2. CASE UNCHANGED <<second, archive>>
    BY <1>1, <2>2, KeptSame DEF FilesInv
  <2> QED
    BY <2>1, <2>2 DEF JobRead, DumpDatabase, Mix, RotateList, JobUnchanged
<1>3. ArchivesStay
  BY <1>2 DEF ArchivesStay
<1>4. DOMAIN job' = Stamp /\ \A q \in Stamp \ {s} : job'[q] = job[q]
  BY DEF JobInv, JobRead, DumpDatabase, Mix, Pack, RotateList
<1>5. JobOk(s)'
  BY ReadOk, DumpOk, MixOk, PackOk, ListedOk
<1>6. job[s].pc \notin Making => job'[s].pc \notin Making
  <2>1. CASE RotateList(s)
    <3>1. job'[s] = Idle \/ job'[s].pc = "file"
      BY <2>1 DEF JobInv, RotateList
    <3> QED
      BY <3>1, IdleIs DEF Making
  <2>2. CASE job[s].pc # "list"
    BY <1>1, <2>2 DEF Making
  <2> QED
    BY <2>1, <2>2 DEF JobRead, DumpDatabase, Mix, Pack
<1>7. JobInv' /\ DoneInv' /\ Steady
  BY <1>1, <1>3, <1>4, <1>5, <1>6, JobMoves
<1>8. TableInv' /\ CopiesInv'
  BY <1>1, <1>7, TableStays, CopiesStay DEF TableInv
<1>9. Voided' \/ KeptInv'
  <2>1. \A i : Removing(i) => Removing(i)'
    BY <1>1, <1>4 DEF Removing
  <2> QED
    BY <1>1, <1>2, <2>1 DEF KeptInv, TableInv
<1> QED
  BY <1>2, <1>7, <1>8, <1>9

LEMMA RunFull ==
  ASSUME FullInv, NEW s \in Stamp, JobRun(s), Voided => Voided'
  PROVE  FullInv'
<1> USE DEF FullInv, TracksInv
<1>1. /\ JobOk(s) /\ DOMAIN job = Stamp /\ s <= stamps /\ job[s].id = s /\ s \notin done /\ s \in Id
      /\ UNCHANGED <<next, stamps, restore, deleting, sched, done, second, archive>> /\ job[s].pc = "run"
      /\ job[s].row \in Row /\ job[s].row.stamp = s /\ ~job[s].row.enc
  BY Ids DEF JobInv, JobOk, JobRun, JobUnchanged, Making, timer
<1>2. PICK row : row = [job[s].row EXCEPT !.status = "running"]
  OBVIOUS
<1>3. row \in Row /\ row.stamp = s /\ row.status = "running" /\ ~row.enc
  BY <1>1, <1>2 DEF Row, Status
<1>4. PICK old : Save(s, old, row)
  BY <1>1, <1>2 DEF JobRun
<1>5. /\ DOMAIN job' = Stamp /\ job'[s].pc = "dump" /\ job'[s].id = s /\ job'[s].row = row
      /\ \A q \in Stamp \ {s} : job'[q] = job[q]
  BY <1>1, <1>2 DEF JobRun
<1>6. JobOk(s)' /\ ArchivesStay
  BY <1>1, <1>3, <1>5, FilesSame DEF JobOk, Making
<1>7. JobInv' /\ DoneInv' /\ Steady /\ done' \subseteq Stamp
  BY <1>1, <1>5, <1>6, JobMoves DEF Making
<1>8. RowOk(s, row)'
  BY <1>1, <1>3 DEF RowOk
<1>9. TableInv' /\ (Voided' \/ \A i \in Id : table'[i] # None => table[i] # None)
  BY <1>1, <1>4, <1>7, <1>8, TableSaved
<1>10. CopiesInv'
  BY <1>1, <1>7, CopiesStay
<1>11. Voided' \/ KeptInv'
  <2>1. \A i : Removing(i) => Removing(i)'
    BY <1>1, <1>5 DEF Removing
  <2> QED
    BY <1>1, <1>9, <2>1, KeptSame, Ids DEF KeptInv, TableInv
<1> QED
  BY <1>6, <1>7, <1>9, <1>10, <1>11 DEF ArchivesStay

\* The row says what the goroutine has done, and the archive is there if it says so.
LEMMA SaveFull ==
  ASSUME FullInv, NEW s \in Stamp, JobSave(s), Voided => Voided'
  PROVE  FullInv'
<1> USE DEF FullInv, TracksInv
<1>1. /\ JobOk(s) /\ DOMAIN job = Stamp /\ s <= stamps /\ job[s].id = s /\ s \notin done /\ s \in Id
      /\ UNCHANGED <<next, stamps, restore, deleting, sched, second, archive>> /\ job[s].pc = "save"
      /\ job[s].row \in Row /\ job[s].row.stamp = s /\ job[s].row.status \in {"completed", "failed"}
      /\ job[s].row.status = "completed" => Kept(s)
  BY Ids DEF JobInv, JobOk, JobSave, JobUnchanged, Making, timer
<1>2. PICK row : row = job[s].row
  OBVIOUS
<1>3. PICK old : Save(s, old, row)
  BY <1>1, <1>2 DEF JobSave
<1>4. /\ DOMAIN job' = Stamp /\ \A q \in Stamp \ {s} : job'[q] = job[q]
      /\ \/ row.status = "completed" /\ job'[s].pc = "list" /\ job'[s].id = s /\ done' = done \cup {s}
         \/ row.status = "failed" /\ job'[s].pc = "idle" /\ done' = done
  <2>1. CASE row.status = "completed"
    <3>1. job' = [job EXCEPT ![s].pc = "list"] /\ done' = done \cup {s}
      BY <1>2, <2>1 DEF JobSave
    <3> QED
      BY <1>1, <2>1, <3>1
  <2>2. CASE row.status # "completed"
    BY <1>1, <1>2, <2>2, IdleIs DEF JobSave
  <2> QED
    BY <2>1, <2>2
<1>5. JobOk(s)' /\ ArchivesStay
  BY <1>1, <1>4, FilesSame, KeptSame DEF JobOk, Making
<1>6. JobInv' /\ DoneInv' /\ Steady /\ done' \subseteq Stamp
  BY <1>1, <1>4, <1>5, JobMoves DEF Making
<1>7. RowOk(s, row)'
  BY <1>1, <1>2, <1>4 DEF RowOk, Made, Making
<1>8. TableInv' /\ (Voided' \/ \A i \in Id : table'[i] # None => table[i] # None)
  BY <1>1, <1>3, <1>6, <1>7, TableSaved
<1>9. CopiesInv'
  BY <1>1, <1>6, CopiesStay
<1>10. Voided' \/ KeptInv'
  <2>1. \A i : Removing(i) => Removing(i)'
    BY <1>1, <1>4 DEF Removing
  <2> QED
    BY <1>1, <1>2, <1>4, <1>8, <2>1, KeptSame, Ids DEF KeptInv, TableInv
<1> QED
  BY <1>5, <1>6, <1>8, <1>9, <1>10 DEF ArchivesStay

\* A rotation removes the archive of a completed backup ...
LEMMA RotateFileFull ==
  ASSUME FullInv, NEW s \in Stamp, RotateFile(s), Voided => Voided'
  PROVE  FullInv'
<1> USE DEF FullInv, TracksInv
<1>1. /\ JobOk(s) /\ DOMAIN job = Stamp /\ s <= stamps /\ job[s].id = s
      /\ UNCHANGED <<table, next, stamps, second, restore, deleting, sched, done>> /\ job[s].pc = "file"
      /\ ListOk(job[s].list)
  BY DEF JobInv, JobOk, RotateFile, JobUnchanged, timer
<1>2. PICK list : list = job[s].list
  OBVIOUS
<1>3. PICK i : i = Head(list)[1]
  OBVIOUS
<1>4. i \in done /\ i \in Stamp /\ Head(list)[2].stamp = i /\ Made(i)
  BY <1>1, <1>2, <1>3, HeadOk DEF TableInv, DoneInv
<1>5. /\ archive' = [archive EXCEPT ![second[i]] = None] /\ FilesInv'
      /\ \A q \in Stamp : q # i /\ Kept(q) => Kept(q)'
  <2>1. archive' = [archive EXCEPT ![second[i]] = None]
    BY <1>2, <1>4 DEF RotateFile
  <2> QED
    BY <1>1, <1>4, <2>1, FileSet
<1>6. /\ DOMAIN job' = Stamp /\ job'[s].pc = "row" /\ job'[s].id = s /\ job'[s].list = list
      /\ \A q \in Stamp \ {s} : job'[q] = job[q]
  BY <1>1, <1>2 DEF RotateFile
<1>7. ListOk(job[s].list)'
  BY <1>1, <1>2, <1>6 DEF ListOk
<1>8. JobOk(s)' /\ ArchivesStay
  BY <1>1, <1>4, <1>5, <1>6, <1>7 DEF JobOk, Making, ArchivesStay
<1>9. JobInv' /\ DoneInv' /\ Steady /\ done' \subseteq Stamp
  BY <1>1, <1>6, <1>8, JobMoves DEF Making
<1>10. TableInv' /\ CopiesInv'
  BY <1>1, <1>9, TableStays, CopiesStay
<1>11. Voided' \/ KeptInv'
  <2>1. \A j : Removing(j) => Removing(j)'
    BY <1>1, <1>6 DEF Removing
  <2>2. Removing(i)'
    BY <1>3, <1>6 DEF Removing
  <2> QED
    BY <1>1, <1>5, <2>1, <2>2 DEF KeptInv, TableInv
<1> QED
  BY <1>8, <1>9, <1>10, <1>11 DEF ArchivesStay

\* ... and then its row.
LEMMA RotateRowFull ==
  ASSUME FullInv, NEW s \in Stamp, RotateRow(s), Voided => Voided'
  PROVE  FullInv'
<1> USE DEF FullInv, TracksInv
<1>1. /\ JobOk(s) /\ DOMAIN job = Stamp /\ s <= stamps /\ job[s].id = s
      /\ UNCHANGED <<next, stamps, restore, deleting, sched, done, second, archive>> /\ job[s].pc = "row"
      /\ ListOk(job[s].list)
  BY DEF JobInv, JobOk, RotateRow, JobUnchanged, timer
<1>2. PICK list : list = job[s].list
  OBVIOUS
<1>3. PICK i : i = Head(list)[1]
  OBVIOUS
<1>4. i \in done /\ i \in Id
  BY <1>1, <1>2, <1>3, HeadOk, Ids DEF TableInv
<1>5. table' = [table EXCEPT ![i] = None]
  BY <1>2, <1>3 DEF RotateRow, Erase
<1>6. PICK rest : rest = list \ {Head(list)}
  OBVIOUS
<1>7. /\ DOMAIN job' = Stamp /\ \A q \in Stamp \ {s} : job'[q] = job[q]
      /\ \/ job'[s].pc = "idle"
         \/ rest # {} /\ job'[s].pc = "file" /\ job'[s].id = s /\ job'[s].list = rest
  <2>1. CASE rest = {}
    BY <1>1, <1>2, <1>6, <2>1, IdleIs DEF RotateRow
  <2>2. CASE rest # {}
    BY <1>1, <1>2, <1>6, <2>2 DEF RotateRow
  <2> QED
    BY <2>1, <2>2
<1>8. rest # {} => ListOk(rest)'
  BY <1>1, <1>2, <1>6 DEF ListOk
<1>9. JobOk(s)' /\ ArchivesStay
  BY <1>1, <1>7, <1>8, FilesSame DEF JobOk, Making
<1>10. JobInv' /\ DoneInv' /\ Steady /\ done' \subseteq Stamp
  BY <1>1, <1>7, <1>9, JobMoves DEF Making
<1>11. TableInv' /\ table'[i] = None /\ \A j \in Id : table'[j] # None => table[j] # None
  BY <1>1, <1>4, <1>5, <1>10, TableErased
<1>12. CopiesInv'
  BY <1>1, <1>10, CopiesStay
<1>13. Voided' \/ KeptInv'
  <2>1. \A j : j # i /\ Removing(j) => Removing(j)'
    BY <1>1, <1>2, <1>3, <1>7 DEF Removing
  <2> QED
    BY <1>1, <1>11, <2>1, KeptSame, Ids DEF KeptInv, TableInv
<1> QED
  BY <1>9, <1>10, <1>11, <1>12, <1>13 DEF ArchivesStay

-----------------------------------------------------------------------------
(* Deleting a backup.                                                      *)

LEMMA DeleteFull ==
  ASSUME FullInv, DeleteBackup, Voided => Voided'
  PROVE  FullInv'
<1> USE DEF FullInv, TracksInv
<1>1. UNCHANGED <<next, stamps, second, job, restore, sched, done>>
  BY DEF DeleteBackup, DeleteRead, DeleteFiles, DeleteRow, DeleteUnchanged, timer
<1>2. ASSUME ArchivesStay PROVE JobInv' /\ DoneInv' /\ Steady /\ done' \subseteq Stamp
  BY <1>1, <1>2, JobsStay DEF TableInv
<1>3. ASSUME Steady, DeleteInv' PROVE CopiesInv'
  BY <1>1, <1>3, RestoresStay, RowStays DEF CopiesInv, SchedInv
<1>4. ASSUME NEW i \in Id, DeleteRead(i) PROVE FullInv'
  <2>1. UNCHANGED <<table, archive>> /\ deleting = Idle /\ table[i] # None
    BY <1>4 DEF DeleteRead, Rows
  <2>2. JobInv' /\ DoneInv' /\ Steady /\ done' \subseteq Stamp
    BY <1>1, <1>2, <2>1, FilesSame
  <2>3. TableInv' /\ FilesInv'
    BY <1>1, <2>1, <2>2, TableStays, FilesSame DEF ArchivesStay
  <2>4. deleting'.pc = "files" /\ deleting'.id = i /\ deleting'.row = table[i]
    BY <1>4 DEF DeleteRead, Idle
  <2>5. DeleteInv'
    BY <2>1, <2>3, <2>4 DEF TableInv, DeleteInv
  <2>6. Voided' \/ KeptInv'
    BY <1>1, <2>1, IdleIs, KeptStays
  <2> QED
    BY <1>3, <2>1, <2>2, <2>3, <2>5, <2>6
<1>5. CASE DeleteFiles
  <2>1. /\ UNCHANGED table /\ deleting.pc = "files" /\ deleting.id \in Id /\ RowOk(deleting.id, deleting.row)
        /\ deleting'.pc = "row" /\ deleting'.id = deleting.id /\ deleting'.row = deleting.row
    BY <1>5 DEF DeleteFiles, CopiesInv, DeleteInv
  <2>2. PICK i \in Stamp : i = deleting.id
    BY <2>1, Ids
  <2>3. UNCHANGED archive \/ (Made(i) /\ archive' = [archive EXCEPT ![second[i]] = None])
    BY <1>5, <2>1, <2>2 DEF DeleteFiles, RowOk
  <2>4. ArchivesStay /\ \A q \in Stamp : q # i /\ Kept(q) => Kept(q)'
    BY <1>1, <2>3, FilesSame, KeptSame, FileSet DEF ArchivesStay
  <2>5. JobInv' /\ DoneInv' /\ Steady /\ done' \subseteq Stamp
    BY <1>2, <2>4
  <2>6. TableInv'
    BY <1>1, <2>1, <2>5, TableStays
  <2>7. DeleteInv'
    BY <2>1, <2>5, RowStays DEF DeleteInv
  <2>8. Voided' \/ KeptInv'
    <3>1. Removing(i)' /\ \A j : Removing(j) => Removing(j)'
      BY <1>1, <2>1, <2>2 DEF Removing
    <3> QED
      BY <1>1, <2>1, <2>4, <3>1 DEF KeptInv, TableInv
  <2> QED
    BY <1>3, <2>4, <2>5, <2>6, <2>7, <2>8 DEF ArchivesStay
<1>6. CASE DeleteRow
  <2>1. /\ UNCHANGED archive /\ deleting.pc = "row" /\ deleting.id \in Id /\ deleting' = Idle
        /\ table' = [table EXCEPT ![deleting.id] = None]
    BY <1>6 DEF DeleteRow, CopiesInv, DeleteInv
  <2>2. PICK i \in Id : i = deleting.id
    BY <2>1
  <2>3. JobInv' /\ DoneInv' /\ Steady /\ done' \subseteq Stamp
    BY <1>1, <1>2, <2>1, FilesSame
  <2>4. TableInv' /\ table'[i] = None /\ \A j \in Id : table'[j] # None => table[j] # None
    BY <1>1, <2>1, <2>2, <2>3, TableErased
  <2>5. DeleteInv'
    BY <2>1, IdleIs DEF DeleteInv
  <2>6. Voided' \/ KeptInv'
    <3>1. \A j : j # i /\ Removing(j) => Removing(j)'
      BY <1>1, <2>2 DEF Removing
    <3> QED
      BY <1>1, <2>1, <2>4, <3>1, KeptSame, Ids DEF KeptInv, TableInv
  <2> QED
    BY <1>1, <1>3, <2>1, <2>3, <2>4, <2>5, <2>6, FilesSame DEF ArchivesStay
<1> QED
  BY <1>4, <1>5, <1>6 DEF DeleteBackup

-----------------------------------------------------------------------------
(* Restoring a backup.                                                     *)

\* A restore that goes on with a row of the same backup.
LEMMA RestoreMoves ==
  ASSUME FullInv, Voided => Voided', NEW r \in Restore, 
         UNCHANGED <<next, stamps, second, archive, job, deleting, sched, done>>,
         NEW i \in Id, NEW row, i \in done, RowOk(i, row), DOMAIN restore' = Restore,
         \A q \in Restore \ {r} : restore'[q] = restore[q],
         Pc(r)' = "idle" \/ (restore'[r].id = i /\ restore'[r].row = row),
         \/ UNCHANGED table
         \/ \E old, new : Save(i, old, new) /\ RowOk(i, new)
  PROVE  FullInv'
<1> USE DEF FullInv, TracksInv
<1>1. JobInv' /\ DoneInv' /\ Steady /\ FilesInv'
  BY JobsStay, FilesSame DEF ArchivesStay, TableInv
<1>2. RowOk(i, row)'
  BY <1>1, RowStays
<1>3. TableInv' /\ (Voided' \/ \A j \in Id : table'[j] # None => table[j] # None)
  <2>1. CASE UNCHANGED table
    BY <1>1, <2>1, TableStays DEF TableInv
  <2>2. ASSUME NEW old, NEW new, Save(i, old, new), RowOk(i, new)
        PROVE  TableInv' /\ (Voided' \/ \A j \in Id : table'[j] # None => table[j] # None)
    <3>1. RowOk(i, new)'
      BY <1>1, <2>2, RowStays
    <3> QED
      BY <1>1, <2>2, <3>1, TableSaved DEF TableInv
  <2> QED
    BY <2>1, <2>2
<1>4. RestoreInv'
  <2> SUFFICES ASSUME NEW q \in Restore, Pc(q)' # "idle"
               PROVE  restore'[q].id \in done' /\ RowOk(restore[q].id, restore[q].row)'
    BY DEF RestoreInv
  <2>1. CASE q = r
    BY <1>1, <1>2, <2>1 DEF Steady
  <2>2. CASE q # r
    <3>1. restore'[q] = restore[q] /\ restore[q].id \in done /\ RowOk(restore[q].id, restore[q].row)
      BY <2>2 DEF CopiesInv, RestoreInv, Pc
    <3>2. PICK j, copy : j \in Id /\ j = restore[q].id /\ copy = restore[q].row
      BY <3>1, Ids DEF TableInv
    <3>3. RowOk(j, copy)'
      BY <1>1, <3>1, <3>2, RowStays
    <3> QED
      BY <1>1, <3>1, <3>2, <3>3 DEF Steady
  <2> QED
    BY <2>1, <2>2
<1>5. DeleteInv' /\ SchedInv'
  BY <1>1, RowStays DEF CopiesInv, DeleteInv, SchedInv
<1>6. Voided' \/ KeptInv'
  BY <1>3, KeptStays
<1> QED
  BY <1>1, <1>3, <1>4, <1>5, <1>6 DEF CopiesInv

\* The row of a restore may become restoring, completed or failed: it was completed.
LEMMA StatusOk ==
  ASSUME NEW i, NEW row, RowOk(i, row), i \in done, NEW st \in Status
  PROVE  RowOk(i, [row EXCEPT !.status = st])
<1>1. row \in Row
  BY DEF RowOk
<1>2. LET new == [row EXCEPT !.status = st] IN
        new \in Row /\ new.stamp = row.stamp /\ new.status = st /\ new.enc = row.enc
  BY <1>1 DEF Row
<1> QED
  BY <1>2 DEF RowOk

LEMMA RestoreFull ==
  ASSUME Shape, FullInv, RestoreBackup, Voided => Voided'
  PROVE  FullInv'
<1> USE DEF FullInv, TracksInv
<1>1. UNCHANGED <<next, stamps, second, archive, job, deleting, sched, done>>
  <2>1. RestoreUnchanged => UNCHANGED <<next, stamps, second, archive, job, deleting, sched, done>>
    BY DEF RestoreUnchanged, timer
  <2> QED
    BY <2>1 DEF RestoreBackup, RestoreRead, RestoreMark, RestoreOpen, RestoreRename, RestoreCopy, RestoreVerify,
                RestoreFiles, RestoreSave
<1>2. DOMAIN restore = Restore
  BY DEF CopiesInv
<1>3. ASSUME NEW i \in Id, RestoreRead(i), NEW r \in Restore, r = left PROVE FullInv'
  <2>1. PICK row : row = table[i]
    OBVIOUS
  <2>2. RowOk(i, row) /\ row.status = "completed" /\ i \in done
    BY <1>3, <2>1 DEF RestoreRead, Having, Rows, TableInv, RowOk
  <2>3. restore' = [restore EXCEPT ![r] = [Idle EXCEPT !.pc = "mark", !.id = i, !.row = row]]
    BY <1>3, <2>1 DEF RestoreRead
  <2>4. restore'[r].id = i /\ restore'[r].row = row /\ \A q \in Restore \ {r} : restore'[q] = restore[q]
    BY <1>2, <2>3 DEF Idle
  <2>5. DOMAIN restore' = Restore /\ UNCHANGED table
    BY <1>2, <1>3 DEF RestoreRead
  <2> QED
    BY <1>1, <2>2, <2>4, <2>5, RestoreMoves
<1>4. ASSUME NEW r \in Restore, Pc(r) # "idle",
             RestoreMark(r) \/ RestoreOpen(r) \/ RestoreRename(r) \/ RestoreCopy(r) \/ RestoreVerify(r) \/ RestoreFiles(r) \/ RestoreSave(r)
      PROVE  FullInv'
  <2>1. PICK i, row : i \in Id /\ i = restore[r].id /\ row = restore[r].row /\ i \in done /\ RowOk(i, row)
    BY <1>4, Ids DEF CopiesInv, RestoreInv, TableInv
  <2>2. ASSUME NEW st \in Status PROVE RowOk(i, [row EXCEPT !.status = st])
    BY <2>1, StatusOk
  <2>3. /\ DOMAIN restore' = Restore /\ \A q \in Restore \ {r} : restore'[q] = restore[q]
    BY <1>2, <1>4 DEF RestoreMark, RestoreOpen, RestoreRename, RestoreCopy, RestoreVerify, RestoreFiles, RestoreSave,
                      Fails
  <2>4. \/ Pc(r)' = "idle"
        \/ restore'[r].id = i /\ restore'[r].row = row
        \/ \E st \in Status : restore'[r].id = i /\ restore'[r].row = [row EXCEPT !.status = st]
    <3>1. CASE RestoreMark(r)
      <4>1. restore'[r].id = i /\ restore'[r].row = [row EXCEPT !.status = "restoring"]
        BY <1>2, <2>1, <3>1 DEF RestoreMark
      <4> QED
        BY <4>1 DEF Status
    <3>2. CASE Fails(r)
      <4>1. restore'[r].id = i /\ restore'[r].row = [row EXCEPT !.status = "failed"]
        BY <1>2, <2>1, <3>2 DEF Fails
      <4> QED
        BY <4>1 DEF Status
    <3>3. ASSUME NEW to, NEW copy,
                 \/ restore' = [restore EXCEPT ![r].pc = to]
                 \/ restore' = [restore EXCEPT ![r].pc = to, ![r].copy = copy]
          PROVE  restore'[r].id = i /\ restore'[r].row = row
      <4>1. CASE restore' = [restore EXCEPT ![r].pc = to]
        BY <1>2, <2>1, <4>1
      <4>2. CASE restore' = [restore EXCEPT ![r].pc = to, ![r].copy = copy]
        BY <1>2, <2>1, <4>2
      <4> QED
        BY <3>3, <4>1, <4>2
    <3>4. CASE restore' = [restore EXCEPT ![r].pc = "save", ![r].row.status = "completed"]
      <4>1. restore'[r].id = i /\ restore'[r].row = [row EXCEPT !.status = "completed"]
        BY <1>2, <2>1, <3>4
      <4> QED
        BY <4>1 DEF Status
    <3>5. CASE RestoreSave(r)
      BY <1>2, <3>5, IdleIs DEF RestoreSave, Pc
    <3> QED
      BY <1>4, <3>1, <3>2, <3>3, <3>4, <3>5 DEF RestoreOpen, RestoreRename, RestoreCopy, RestoreVerify, RestoreFiles
  <2>5. UNCHANGED table \/ \E old, new : Save(i, old, new) /\ RowOk(i, new)
    <3>1. CASE RestoreMark(r)
      <4>1. \E old : Save(i, old, [row EXCEPT !.status = "restoring"])
        BY <2>1, <3>1 DEF RestoreMark
      <4> QED
        BY <2>2, <4>1 DEF Status
    <3>2. CASE RestoreSave(r)
      BY <2>1, <3>2 DEF RestoreSave
    <3> QED
      BY <1>4, <3>1, <3>2 DEF RestoreOpen, RestoreRename, RestoreCopy, RestoreVerify, RestoreFiles
  <2>6. PICK new : RowOk(i, new) /\ (Pc(r)' = "idle" \/ (restore'[r].id = i /\ restore'[r].row = new))
    BY <2>1, <2>2, <2>4
  <2> QED
    BY <1>1, <2>1, <2>3, <2>5, <2>6, RestoreMoves
<1>5. ASSUME NEW r \in Restore, RestoreMark(r) \/ RestoreOpen(r) \/ RestoreRename(r) \/ RestoreCopy(r)
                                \/ RestoreVerify(r) \/ RestoreFiles(r) \/ RestoreSave(r)
      PROVE  Pc(r) # "idle"
  BY <1>5 DEF RestoreMark, RestoreOpen, RestoreRename, RestoreCopy, RestoreVerify, RestoreFiles, RestoreSave, Pc
<1>6. left > 0 => left \in Restore
  BY BackupsAssumption DEF Shape, Restore
<1>7. ASSUME NEW i \in Id, RestoreRead(i) PROVE FullInv'
  BY <1>3, <1>6, <1>7 DEF RestoreRead, Spend
<1> QED
  BY <1>4, <1>5, <1>7 DEF RestoreBackup

-----------------------------------------------------------------------------
(* The schedule.                                                           *)

LEMMA CronOk ==
  ASSUME NEW i, NEW row, RowOk(i, row), NEW c \in Crons \cup {None}
  PROVE  RowOk(i, [row EXCEPT !.cron = c])
<1>1. row \in Row
  BY DEF RowOk
<1>2. LET new == [row EXCEPT !.cron = c] IN
        new \in Row /\ new.stamp = row.stamp /\ new.status = row.status /\ new.enc = row.enc
  BY <1>1 DEF Row
<1> QED
  BY <1>2 DEF RowOk

LEMMA LatestIn ==
  ASSUME Rows # {}, \A i \in Rows : table[i].stamp \in Stamp
  PROVE  Latest(Rows) \in Rows
<1>1. PICK f : f = [i \in Rows |-> table[i].stamp]
  OBVIOUS
<1>2. \A i \in Rows : f[i] = table[i].stamp /\ f[i] \in Stamp
  BY <1>1
<1>3. \E i \in Rows : \A j \in Rows : f[j] <= f[i]
  BY <1>2, MaxIn
<1>4. \E i \in Rows : \A j \in Rows : table[j].stamp <= table[i].stamp
  BY <1>2, <1>3
<1> QED
  BY <1>4 DEF Latest

\* Steps that give no backup a row again.
LEMMA SchedMoves ==
  ASSUME FullInv, Voided => Voided', UNCHANGED <<second, archive, job, restore, deleting, done>>,
         stamps' \in Nat, stamps <= stamps',
         Steady => TableInv' /\ SchedInv',
         Voided' \/ \A i \in Id : i <= stamps /\ table'[i] # None => table[i] # None
  PROVE  FullInv'
<1> USE DEF FullInv, TracksInv
<1>1. JobInv' /\ DoneInv' /\ Steady /\ FilesInv'
  <2>1. stamps \in Nat
    BY DEF TableInv
  <2> QED
    BY <2>1, JobsStay, FilesStay DEF ArchivesStay
<1>2. RestoreInv'
  BY <1>1, RestoresStay DEF CopiesInv
<1>3. DeleteInv'
  BY <1>1, RowStays DEF CopiesInv, DeleteInv
<1>4. Voided' \/ KeptInv'
  <2>1. \A i : Removing(i) => Removing(i)'
    BY DEF Removing
  <2>2. \A i \in done : i \in Id /\ i <= stamps
    BY Ids DEF TableInv, DoneInv, Made
  <2> QED
    BY <2>1, <2>2, KeptSame, Ids DEF KeptInv
<1> QED
  BY <1>1, <1>2, <1>3, <1>4 DEF CopiesInv

LEMMA SchedFull ==
  ASSUME FullInv, SetSchedule, Voided => Voided'
  PROVE  FullInv'
<1> USE DEF FullInv, TracksInv
<1>1. UNCHANGED <<second, archive, job, restore, deleting, done>>
  BY DEF SetSchedule, UpdateSchedule, SchedClear, SchedLatest, SchedSave, SchedEntry, SchedUnchanged
<1>2. stamps \in Nat /\ stamps <= stamps /\ done \subseteq Stamp
  BY DEF TableInv
<1>3. ASSUME NEW c \in Crons \cup {None}, UpdateSchedule(c) PROVE FullInv'
  <2>1. UNCHANGED <<table, next, stamps>> /\ sched'.pc = "clear" /\ sched'.cron = c
    BY <1>3 DEF UpdateSchedule, IdleSched
  <2> QED
    BY <1>1, <1>2, <2>1, SchedMoves, TableStays DEF SchedInv
<1>4. CASE SchedClear
  <2>1. /\ UNCHANGED <<next, stamps>> /\ sched' = [sched EXCEPT !.pc = "latest"]
        /\ table' = [i \in Id |-> IF i \in Rows THEN [table[i] EXCEPT !.cron = None] ELSE None]
    BY <1>4 DEF SchedClear
  <2>2. SchedInv'
    <3>1. sched'.pc = "latest" \/ sched'.pc = sched.pc
      BY <2>1
    <3>2. sched.pc = "clear"
      BY <1>4 DEF SchedClear
    <3> QED
      BY <2>1, <3>1, <3>2 DEF SchedInv, CopiesInv
  <2>3. \A i \in Id : table'[i] # None => table[i] # None
    BY <2>1 DEF Rows
  <2>4. ASSUME Steady PROVE TableInv'
    <3>1. ASSUME NEW i \in Id, NEW new, new = table'[i], new # None
          PROVE  new \in Row /\ RowOk(i, new)'
      <4>1. PICK row : row = table[i]
        OBVIOUS
      <4>2. row # None /\ RowOk(i, row) /\ new = [row EXCEPT !.cron = None]
        BY <2>1, <3>1, <4>1 DEF Rows, TableInv
      <4>3. RowOk(i, new)
        BY <4>2, CronOk
      <4>4. RowOk(i, new)'
        BY <2>4, <4>3, RowStays
      <4> QED
        BY <2>1, <4>2, <4>3, <4>4 DEF RowOk
    <3>2. table' \in [Id -> Row \cup {None}]
      <4>1. DOMAIN table' = Id /\ table' = [i \in Id |-> table'[i]]
        BY <2>1
      <4>2. \A i \in Id : table'[i] \in Row \cup {None}
        BY <3>1
      <4> QED
        BY <4>1, <4>2
    <3> QED
      BY <1>1, <1>2, <2>1, <3>1, <3>2 DEF TableInv
  <2> QED
    BY <1>1, <1>2, <2>1, <2>2, <2>3, <2>4, SchedMoves
<1>5. CASE SchedLatest
  <2>1. sched.pc = "latest" /\ sched.cron \in Crons \cup {None}
    BY <1>5 DEF SchedLatest, CopiesInv, SchedInv
  <2>2. CASE Rows = {}
    <3>1. Insert([New EXCEPT !.cron = sched.cron]) /\ sched' = [sched EXCEPT !.pc = "entry"]
      BY <1>5, <2>2 DEF SchedLatest
    <3>2. PICK row : row = [New EXCEPT !.cron = sched.cron]
      OBVIOUS
    <3>3. stamps < MaxBackups /\ stamps \in 0..MaxBackups
      BY <3>1 DEF Insert, TableInv
    <3>4. /\ row \in Row /\ row.stamp = stamps + 1 /\ row.status = "pending" /\ ~row.enc
      BY <2>1, <3>2, <3>3, NewIs
    <3>5. Steady => /\ TableInv' /\ stamps' = stamps + 1
                    /\ \A i \in Id : i <= stamps => table'[i] = table[i]
      BY <1>1, <3>1, <3>2, <3>4, RowMade
    <3>6. stamps' = stamps + 1 /\ stamps' \in Nat /\ stamps <= stamps'
      BY <1>2, <3>1 DEF Insert
    <3>7. SchedInv'
      <4>1. sched'.pc = "entry" \/ sched'.pc = sched.pc
        BY <3>1
      <4> QED
        BY <2>1, <3>1, <4>1 DEF SchedInv, CopiesInv
    <3>8. Steady
      BY <1>1, <1>2, <3>6, JobsStay, FilesStay
    <3> QED
      BY <1>1, <3>5, <3>6, <3>7, <3>8, SchedMoves
  <2>3. CASE Rows # {}
    <3>1. PICK i, row : i \in Id /\ i = Latest(Rows) /\ row = table[i] /\ row # None /\ RowOk(i, row)
      BY <2>3, LatestIn DEF Rows, TableInv, RowOk, Row
    <3>2. /\ UNCHANGED <<table, next, stamps>>
          /\ sched' = [sched EXCEPT !.pc = "save", !.id = i, !.row = row]
      BY <1>5, <2>3, <3>1 DEF SchedLatest
    <3>3. /\ sched'.pc # "save" \/ sched'.id = i \/ sched' = sched
          /\ sched'.cron = sched.cron
      BY <3>2
    <3>4. Steady => SchedInv'
      <4>1. Steady => RowOk(i, row)'
        BY <3>1, RowStays
      <4>2. sched'.pc = "save" => sched'.id = i /\ sched'.row = row
        BY <2>1, <3>2
      <4> QED
        BY <2>1, <3>1, <3>3, <4>1, <4>2 DEF SchedInv
    <3> QED
      BY <1>1, <1>2, <3>2, <3>4, SchedMoves, TableStays
  <2> QED
    BY <2>2, <2>3
<1>6. CASE SchedSave
  <2>1. /\ sched.pc = "save" /\ sched.id \in Id /\ RowOk(sched.id, sched.row)
        /\ sched.cron \in Crons \cup {None}
        /\ UNCHANGED <<next, stamps>> /\ sched' = [sched EXCEPT !.pc = "entry"]
    BY <1>6 DEF SchedSave, CopiesInv, SchedInv
  <2>2. PICK i, row, new : i \in Id /\ i = sched.id /\ row = sched.row /\ new = [row EXCEPT !.cron = sched.cron]
    BY <2>1
  <2>3. Save(i, row, new)
    BY <1>6, <2>2 DEF SchedSave
  <2>4. RowOk(i, new)
    BY <2>1, <2>2, CronOk
  <2>5. Steady => TableInv' /\ (Voided' \/ \A j \in Id : table'[j] # None => table[j] # None)
    <3>1. Steady => RowOk(i, new)'
      BY <2>2, <2>4, RowStays
    <3> QED
      BY <1>1, <1>2, <2>1, <2>2, <2>3, <3>1, TableSaved
  <2>6. Steady
    BY <1>1, <1>2, <2>1, JobsStay, FilesStay
  <2>7. SchedInv'
    <3>1. sched'.cron = sched.cron /\ (sched'.pc = "entry" \/ sched' = sched)
      BY <2>1
    <3> QED
      BY <1>2, <2>1, <2>6, <3>1, RowStays DEF SchedInv
  <2> QED
    BY <1>1, <1>2, <2>1, <2>5, <2>6, <2>7, SchedMoves
<1>7. CASE SchedEntry
  <2>1. UNCHANGED <<table, next, stamps>> /\ sched' = IdleSched
    BY <1>7 DEF SchedEntry
  <2>2. SchedInv'
    BY <2>1 DEF SchedInv, IdleSched
  <2> QED
    BY <1>1, <1>2, <2>1, <2>2, SchedMoves, TableStays
<1> QED
  BY <1>3, <1>4, <1>5, <1>6, <1>7 DEF SetSchedule

-----------------------------------------------------------------------------
(* Restarts, and all steps.                                                *)

\* A restart that finds the panel's own file, and cuts no removal in two.
LEMMA RestartFull ==
  ASSUME Parameters, FullInv, NEW old \in aged..stamps, Restart(old), Voided => Voided', ~Reborn'
  PROVE  FullInv'
<1> USE DEF FullInv, TracksInv
<1>1. disk = Live /\ (Voided' \/ (deleting = Idle /\ \A s \in Stamp : job[s].pc \notin {"list", "file", "row"}))
  BY DEF Restart, Voided, Reborn
<1>2. table' = CleanupStaleBackups(table, old) /\ UNCHANGED <<next, stamps, second, archive, done>>
  <2>1. Found = [table |-> table, next |-> next]
    BY <1>1 DEF Parameters, Found
  <2>2. PICK found : found = Found
    OBVIOUS
  <2>3. found.table = table /\ found.next = next
    BY <2>1, <2>2
  <2> QED
    BY <2>2, <2>3 DEF Restart
<1>3. /\ job' = [s \in Stamp |-> Idle] /\ restore' = [r \in Restore |-> Idle]
      /\ deleting' = Idle /\ sched' = IdleSched
  BY DEF Restart
<1>4. \A s \in Stamp : job'[s].pc = "idle"
  BY <1>3, IdleIs
<1>5. JobInv' /\ DoneInv' /\ Steady
  <2>1. JobInv'
    BY <1>3, <1>4 DEF JobInv, JobOk, Making
  <2>2. \A s \in Stamp : s <= stamps => Made(s)'
    BY <1>2, <1>4 DEF Made, Making
  <2>3. DoneInv'
    BY <1>2, <2>2 DEF DoneInv, TableInv, Made
  <2> QED
    BY <1>2, <2>1, <2>2, <2>3, Ids DEF Steady, Made, TableInv
<1>6. ASSUME NEW i \in Id, NEW new, new = table'[i], new # None
      PROVE  new \in Row /\ RowOk(i, new)' /\ table[i] # None
  <2>1. PICK row : row = table[i]
    OBVIOUS
  <2>2. new = row \/ (row # None /\ new = [row EXCEPT !.status = "failed"])
    BY <1>2, <1>6, <2>1 DEF CleanupStaleBackups, Unfinished
  <2>3. row # None /\ RowOk(i, row)
    BY <1>6, <2>1, <2>2 DEF TableInv
  <2>4. RowOk(i, [row EXCEPT !.status = "failed"])
    <3>1. row \in Row
      BY <2>3 DEF RowOk
    <3>2. LET r == [row EXCEPT !.status = "failed"] IN
            r \in Row /\ r.stamp = row.stamp /\ r.status = "failed" /\ r.enc = row.enc
      BY <3>1 DEF Row, Status
    <3> QED
      BY <2>3, <3>2 DEF RowOk
  <2>5. RowOk(i, new)
    BY <2>2, <2>3, <2>4
  <2>6. RowOk(i, new)'
    BY <1>5, <2>5, RowStays
  <2> QED
    BY <1>2, <2>1, <2>3, <2>5, <2>6 DEF RowOk
<1>7. TableInv'
  <2>1. DOMAIN table' = Id /\ table' = [i \in Id |-> table'[i]]
    BY <1>2 DEF CleanupStaleBackups
  <2>2. \A i \in Id : table'[i] \in Row \cup {None}
    BY <1>6
  <2>3. table' \in [Id -> Row \cup {None}]
    BY <2>1, <2>2
  <2> QED
    BY <1>2, <1>6, <2>3 DEF TableInv
<1>8. CopiesInv'
  BY <1>3, IdleIs DEF CopiesInv, RestoreInv, DeleteInv, SchedInv, Pc, IdleSched
<1>9. Voided' \/ KeptInv'
  <2>1. Voided' \/ \A i : ~Removing(i)
    BY <1>1, IdleIs DEF Removing
  <2> QED
    BY <1>2, <1>6, <2>1, KeptSame, Ids DEF KeptInv, TableInv
<1> QED
  BY <1>2, <1>5, <1>7, <1>8, <1>9, FilesSame DEF ArchivesStay

LEMMA NothingFull ==
  ASSUME FullInv, UNCHANGED vars
  PROVE  FullInv'
<1> USE DEF FullInv, TracksInv
<1>1. /\ UNCHANGED <<second, archive, job, restore, deleting, done, table, next, stamps, sched>>
      /\ stamps \in Nat /\ stamps <= stamps /\ done \subseteq Stamp
  BY DEF vars, timer, TableInv
<1>2. Voided => Voided'
  BY DEF vars, Voided
<1>3. SchedInv => (Steady => SchedInv')
  BY <1>1, RowStays DEF SchedInv
<1> QED
  BY <1>1, <1>2, <1>3, SchedMoves, TableStays DEF CopiesInv

LEMMA ExcuseGrows == [Next]_vars => excuse \subseteq excuse'
<1> SUFFICES ASSUME [Next]_vars PROVE excuse \subseteq excuse'
  OBVIOUS
<1> USE DEF Save, Erase
<1>1. CASE CreateBackup
  BY <1>1 DEF CreateBackup
<1>2. ASSUME NEW s \in Stamp, MakeBackup(s) PROVE excuse \subseteq excuse'
  BY <1>2 DEF MakeBackup, JobRead, JobRun, DumpDatabase, Mix, Pack, JobSave, RotateList, RotateFile, RotateRow
<1>3. CASE DeleteBackup
  BY <1>3 DEF DeleteBackup, DeleteRead, DeleteFiles, DeleteRow
<1>4. CASE RestoreBackup
  BY <1>4 DEF RestoreBackup, RestoreRead, RestoreMark, RestoreOpen, RestoreRename, RestoreCopy, RestoreVerify,
              RestoreFiles, RestoreSave
<1>5. CASE SetSchedule
  BY <1>5 DEF SetSchedule, UpdateSchedule, SchedClear, SchedLatest, SchedSave, SchedEntry
<1>6. ASSUME NEW old, Restart(old) PROVE excuse \subseteq excuse'
  BY <1>6 DEF Restart
<1>7. CASE UNCHANGED vars
  BY <1>7 DEF vars
<1> QED
  BY <1>1, <1>2, <1>3, <1>4, <1>5, <1>6, <1>7 DEF Next

LEMMA NextFull ==
  ASSUME Copies, Shape, Reborn \/ FullInv, [Next]_vars
  PROVE  (Reborn \/ FullInv)'
<1> SUFFICES ASSUME ~Reborn' PROVE FullInv'
  OBVIOUS
<1>1. FullInv /\ (Voided => Voided')
  BY ExcuseGrows DEF Reborn, Voided
<1>2. ASSUME NEW s \in Stamp, MakeBackup(s) PROVE FullInv'
  BY <1>1, <1>2, JobThinks, RunFull, SaveFull, RotateFileFull, RotateRowFull DEF MakeBackup
<1> QED
  BY <1>1, <1>2, CreateFull, DeleteFull, RestoreFull, SchedFull, RestartFull, NothingFull DEF Next, Copies

LEMMA InitFull == Init => FullInv
<1> SUFFICES ASSUME Init PROVE FullInv
  OBVIOUS
<1>1. TableInv
  BY BackupsAssumption DEF Init, TableInv
<1>2. JobInv /\ DoneInv
  BY IdleIs DEF Init, JobInv, JobOk, DoneInv, Making
<1>3. CopiesInv
  BY IdleIs DEF Init, CopiesInv, RestoreInv, DeleteInv, SchedInv, Pc, IdleSched
<1>4. KeptInv /\ FilesInv
  BY Ids DEF Init, KeptInv, FilesInv
<1> QED
  BY <1>1, <1>2, <1>3, <1>4 DEF FullInv, TracksInv, Init

-----------------------------------------------------------------------------
\* Wherever a restore stops or fails, and however many follow it, a whole
\* database is at the path or aside, as long as no two were at the files at once.
THEOREM DatabaseIsKept ==
  ASSUME Parameters
  PROVE  Spec => []DatabaseSurvives
<1>1. Init => IInv
  BY InitInv
<1>2. IInv /\ [Next]_vars => IInv'
  BY NextInv
<1>3. IInv => DatabaseSurvives
  BY DEF IInv, SafeInv, Together, SomeAside, Whole, DatabaseSurvives, Unless
<1> QED
  BY <1>1, <1>2, <1>3, PTL DEF Spec

\* A backup that is listed as completed can be fetched and restored, however
\* many are made, rotated, deleted, restored and scheduled at the same time
\* (performBackup, rotateBackups, DeleteBackup and RestoreBackup).
THEOREM CompletedRestorable ==
  ASSUME Copies
  PROVE  Spec => []CompletedHasArchive
<1>1. Init => Shape /\ IInv /\ (Reborn \/ FullInv)
  BY InitInv, InitFull DEF Copies, IInv
<1>2. IInv /\ (Reborn \/ FullInv) /\ [Next]_vars => IInv' /\ (Reborn \/ FullInv)'
  BY NextInv, NextFull DEF Copies, IInv
<1>3. Reborn \/ FullInv => CompletedHasArchive
  <2> SUFFICES ASSUME FullInv, ~Voided, NEW i \in Having("completed")
               PROVE  Downloadable(i) \/ Shared(table[i].stamp) \/ Removing(i)
    BY DEF CompletedHasArchive, Voided, Reborn, Unless, Removing
  <2>1. i \in Id /\ table[i] # None /\ table[i].status = "completed"
    BY DEF Having, Rows
  <2>2. i \in done /\ table[i].stamp = i
    BY <2>1 DEF FullInv, TracksInv, TableInv, RowOk
  <2> QED
    BY <2>1, <2>2 DEF FullInv, KeptInv, Kept, Downloadable
<1> QED
  BY <1>1, <1>2, <1>3, PTL DEF Spec

-----------------------------------------------------------------------------
(* What the rows, and the copies of the database, hold, whatever happens.  *)

Rejected == "rejected" \in excuse

GoodRow(row) == row \in Row /\ (row.cron \in Accepted \cup {None} \/ Rejected)

\* n is the next id.
GoodTable(t, n) ==
  /\ t \in [Id -> Row \cup {None}] /\ n \in 1..(stamps + 1)
  /\ \A i \in Id : t[i] # None => i < n /\ GoodRow(t[i])

GoodFile(file) == file \in {None, Broken, Live} \/ GoodTable(file.table, file.next)

FilesData ==
  /\ second \in [Stamp -> Stamp] /\ DOMAIN archive = Stamp /\ DOMAIN aside = Restore
  /\ \A s \in Stamp : GoodFile(archive[s])
  /\ \A r \in Restore : GoodFile(aside[r])
  /\ GoodFile(disk)

Known(i) == i \in Id /\ i < next

JobData(s) ==
  /\ job[s].pc # "idle" => s <= stamps /\ Known(job[s].id)
  /\ job[s].pc \in Making \ {"read"} => GoodRow(job[s].row)
  /\ job[s].pc = "save" => job[s].row.status \in {"completed", "failed"}
  /\ GoodFile(job[s].copy)

RestoreData(r) ==
  /\ Pc(r) # "idle" => Known(restore[r].id) /\ GoodRow(restore[r].row)
  /\ Pc(r) = "mark" => restore[r].row.status = "completed"
  /\ Pc(r) = "save" => restore[r].row.status \in {"completed", "failed"}
  /\ GoodFile(restore[r].copy)

SchedData ==
  /\ DOMAIN sched = {"pc", "id", "row", "cron"}
  /\ sched = IdleSched \/ sched.pc \in {"clear", "latest", "save", "entry"}
  /\ sched.cron \in Crons \cup {None} /\ (sched.cron \in Accepted \cup {None} \/ Rejected)
  /\ sched.pc = "save" => Known(sched.id) /\ GoodRow(sched.row)

LiveData == stamps \in 0..MaxBackups /\ GoodTable(table, next)

DataInv ==
  /\ LiveData /\ FilesData /\ SchedData
  /\ DOMAIN job = Stamp /\ \A s \in Stamp : JobData(s)
  /\ DOMAIN restore = Restore /\ \A r \in Restore : RestoreData(r)

\* Stamps and excuses stay, and ids are not given again.
Grows == /\ stamps' \in 0..MaxBackups /\ stamps <= stamps'
         /\ next' \in Nat /\ next <= next'
         /\ Rejected => Rejected'

LEMMA Wider ==
  ASSUME NEW a \in Nat, NEW b \in Nat, a <= b
  PROVE  \A n \in 1..(a + 1) : n \in 1..(b + 1)
OBVIOUS

LEMMA GoodStays ==
  ASSUME LiveData, stamps' \in 0..MaxBackups, stamps <= stamps', Rejected => Rejected'
  PROVE  /\ \A row : GoodRow(row) => GoodRow(row)'
         /\ \A t, n : GoodTable(t, n) => GoodTable(t, n)'
         /\ \A file : GoodFile(file) => GoodFile(file)'
<1>1. \A row : GoodRow(row) => GoodRow(row)'
  BY DEF GoodRow
<1>2. stamps \in Nat /\ stamps' \in Nat /\ stamps <= stamps'
  BY BackupsAssumption DEF LiveData
<1>3. ASSUME NEW t, NEW n, GoodTable(t, n) PROVE GoodTable(t, n)'
  <2>1. n \in 1..(stamps' + 1)
    <3>1. n \in 1..(stamps + 1)
      BY <1>3 DEF GoodTable
    <3> QED
      BY <1>2, <3>1, Wider
  <2>2. \A i \in Id : \A row : row = t[i] /\ row # None => GoodRow(row)'
    BY <1>1, <1>3 DEF GoodTable
  <2> QED
    BY <1>3, <2>1, <2>2 DEF GoodTable
<1>4. \A file : GoodFile(file) => GoodFile(file)'
  BY <1>3 DEF GoodFile
<1> QED
  BY <1>1, <1>3, <1>4

LEMMA KnownStays ==
  ASSUME LiveData, Grows, NEW i, Known(i)
  PROVE  Known(i)'
<1>1. next \in Nat /\ i \in Nat
  BY Ids DEF LiveData, GoodTable, Known
<1> QED
  BY <1>1 DEF Grows, Known

\* A step that changes one job, one restore, or the schedule.
LEMMA DataMoves ==
  ASSUME DataInv, Grows, LiveData', FilesData',
         DOMAIN job' = Stamp, \A s \in Stamp : job'[s] = job[s] \/ JobData(s)',
         DOMAIN restore' = Restore, \A r \in Restore : restore'[r] = restore[r] \/ RestoreData(r)',
         sched' = sched \/ SchedData'
  PROVE  DataInv'
<1>1. LiveData /\ stamps \in Nat /\ stamps' \in Nat
  BY BackupsAssumption DEF DataInv, LiveData
<1>2. /\ \A row : GoodRow(row) => GoodRow(row)'
      /\ \A file : GoodFile(file) => GoodFile(file)'
      /\ \A i : Known(i) => Known(i)'
  BY <1>1, GoodStays, KnownStays DEF Grows
<1>3. ASSUME NEW s \in Stamp, job'[s] = job[s] PROVE JobData(s)'
  <2>1. s <= stamps => s <= stamps'
    BY <1>1, Ids DEF Grows
  <2> QED
    BY <1>2, <1>3, <2>1 DEF DataInv, JobData
<1>4. ASSUME NEW r \in Restore, restore'[r] = restore[r] PROVE RestoreData(r)'
  BY <1>2, <1>4 DEF DataInv, RestoreData, Pc
<1>5. ASSUME sched' = sched PROVE SchedData'
  BY <1>2, <1>5 DEF DataInv, SchedData, Grows
<1> QED
  BY <1>3, <1>4, <1>5 DEF DataInv

LEMMA RowKeepsGood ==
  ASSUME NEW row, GoodRow(row)
  PROVE  /\ \A s \in Status : GoodRow([row EXCEPT !.status = s]) /\ [row EXCEPT !.status = s].status = s
         /\ \A s \in Status : GoodRow([row EXCEPT !.enc = TRUE, !.status = s])
                              /\ [row EXCEPT !.enc = TRUE, !.status = s].status = s
         /\ \A c \in Crons \cup {None} : c \in Accepted \cup {None} \/ Rejected => GoodRow([row EXCEPT !.cron = c])
<1>1. row \in Row
  BY DEF GoodRow
<1>2. \A s \in Status : LET new == [row EXCEPT !.status = s] IN new \in Row /\ new.cron = row.cron /\ new.status = s
  BY <1>1 DEF Row
<1>3. \A s \in Status : LET new == [row EXCEPT !.enc = TRUE, !.status = s] IN
                          new \in Row /\ new.cron = row.cron /\ new.status = s
  BY <1>1 DEF Row
<1>4. \A c \in Crons \cup {None} : LET new == [row EXCEPT !.cron = c] IN new \in Row /\ new.cron = c
  BY <1>1 DEF Row
<1>5. ASSUME NEW s \in Status
      PROVE  GoodRow([row EXCEPT !.status = s]) /\ [row EXCEPT !.status = s].status = s
  BY <1>2 DEF GoodRow
<1>6. ASSUME NEW s \in Status
      PROVE  GoodRow([row EXCEPT !.enc = TRUE, !.status = s]) /\ [row EXCEPT !.enc = TRUE, !.status = s].status = s
  BY <1>3 DEF GoodRow
<1>7. ASSUME NEW c \in Crons \cup {None}, c \in Accepted \cup {None} \/ Rejected PROVE GoodRow([row EXCEPT !.cron = c])
  BY <1>4, <1>7 DEF GoodRow
<1> QED
  BY <1>5, <1>6, <1>7

LEMMA GoodSaved ==
  ASSUME LiveData, UNCHANGED <<next, stamps>>, Rejected => Rejected', NEW i, Known(i), NEW old, NEW new,
         Save(i, old, new), GoodRow(new)'
  PROVE  LiveData'
<1>1. table' = [table EXCEPT ![i] = new] /\ i \in Id /\ i < next
  BY DEF Save, Known
<1>2. \A row : GoodRow(row) => GoodRow(row)'
  BY GoodStays DEF LiveData
<1>3. table' \in [Id -> Row \cup {None}] /\ \A j \in Id : table'[j] = IF j = i THEN new ELSE table[j]
  BY <1>1 DEF LiveData, GoodTable, GoodRow
<1>4. \A j \in Id : \A row : row = table[j] /\ row # None => j < next /\ GoodRow(row)'
  BY <1>2 DEF LiveData, GoodTable
<1>5. \A j \in Id : \A row : row = table'[j] /\ row # None => j < next' /\ GoodRow(row)'
  BY <1>1, <1>3, <1>4
<1> QED
  BY <1>3, <1>5 DEF LiveData, GoodTable

LEMMA GoodErased ==
  ASSUME LiveData, UNCHANGED <<next, stamps>>, Rejected => Rejected', NEW i, table' = [table EXCEPT ![i] = None]
  PROVE  LiveData'
<1>1. \A row : GoodRow(row) => GoodRow(row)'
  BY GoodStays DEF LiveData
<1>2. table' \in [Id -> Row \cup {None}] /\ \A j \in Id : table'[j] = IF j = i THEN None ELSE table[j]
  BY DEF LiveData, GoodTable
<1>3. \A j \in Id : \A row : row = table[j] /\ row # None => j < next /\ GoodRow(row)'
  BY <1>1 DEF LiveData, GoodTable
<1>4. \A j \in Id : \A row : row = table'[j] /\ row # None => j < next' /\ GoodRow(row)'
  BY <1>2, <1>3
<1> QED
  BY <1>2, <1>4 DEF LiveData, GoodTable

LEMMA GoodInserted ==
  ASSUME LiveData, Rejected => Rejected', NEW row, Insert(row), GoodRow(row)'
  PROVE  LiveData' /\ Grows /\ next \in Id /\ next < next'
<1>1. /\ stamps < MaxBackups /\ table' = [table EXCEPT ![next] = row] /\ next' = next + 1
      /\ stamps' = stamps + 1
  BY DEF Insert
<1>2. /\ stamps \in Nat /\ next \in Nat /\ next \in 1..(stamps + 1) /\ stamps' \in 0..MaxBackups /\ next \in Id
      /\ next' \in 1..(stamps' + 1)
  BY <1>1, BackupsAssumption DEF LiveData, GoodTable, Id
<1>3. Grows
  BY <1>1, <1>2 DEF Grows
<1>4. \A old : GoodRow(old) => GoodRow(old)'
  BY <1>2, <1>1, GoodStays DEF LiveData
<1>5. table' \in [Id -> Row \cup {None}] /\ \A j \in Id : table'[j] = IF j = next THEN row ELSE table[j]
  BY <1>1, <1>2 DEF LiveData, GoodTable, GoodRow
<1>6. \A j \in Id : \A old : old = table[j] /\ old # None => j < next' /\ GoodRow(old)'
  BY <1>1, <1>2, <1>4, Ids DEF LiveData, GoodTable
<1>7. next < next'
  BY <1>1, <1>2
<1>8. \A j \in Id : \A new : new = table'[j] /\ new # None => j < next' /\ GoodRow(new)'
  BY <1>5, <1>6, <1>7
<1>9. LiveData'
  BY <1>2, <1>5, <1>8 DEF LiveData, GoodTable
<1> SUFFICES next \in Id /\ next < next'
  BY <1>3, <1>9
<1> QED
  BY <1>1, <1>2

LEMMA IdleData == /\ Idle.pc = "idle" /\ Idle.copy = None /\ IdleSched.pc = "idle" /\ IdleSched.cron = None
                  /\ \A file \in {None, Broken, Live} : GoodFile(file)
BY DEF Idle, IdleSched, GoodFile

LEMMA DomainIs == DOMAIN IdleSched = {"pc", "id", "row", "cron"}
BY DEF IdleSched

LEMMA CreateData ==
  ASSUME DataInv, CreateBackup
  PROVE  DataInv'
<1>1. /\ Insert(New) /\ UNCHANGED <<archive, disk, aside, restore, sched, excuse>>
      /\ job' = [job EXCEPT ![stamps + 1] = [Idle EXCEPT !.pc = "read", !.id = next]]
      /\ stamps < MaxBackups /\ stamps' = stamps + 1
      /\ \/ UNCHANGED second
         \/ stamps \in Stamp /\ second' = [second EXCEPT ![stamps + 1] = second[stamps]]
  BY DEF CreateBackup, timer, Insert
<1>2. New \in Row /\ New.cron = None
  <2>1. New.cron = None
    BY DEF New
  <2> QED
    BY <1>1, <2>1, NewIs DEF DataInv, LiveData
<1>3. PICK row : row = New
  OBVIOUS
<1>4. LiveData' /\ Grows /\ next \in Id /\ next < next'
  <2>1. Insert(row) /\ GoodRow(row)'
    BY <1>1, <1>2, <1>3 DEF GoodRow, Insert
  <2> QED
    BY <1>1, <2>1, GoodInserted DEF DataInv, Rejected
<1>5. PICK n \in Stamp : n = stamps + 1
  BY <1>1, BackupsAssumption DEF DataInv, LiveData, Stamp
<1>6. /\ DOMAIN job' = Stamp /\ job'[n].pc = "read" /\ job'[n].id = next /\ job'[n].copy = None
      /\ \A q \in Stamp \ {n} : job'[q] = job[q]
  BY <1>1, <1>5 DEF DataInv, Idle
<1>7. n <= stamps'
  BY <1>1, <1>5, Ids
<1>8. JobData(n)'
  BY <1>4, <1>6, <1>7, IdleData DEF JobData, Known, Making, GoodFile
<1>9. FilesData'
  <2>1. second' \in [Stamp -> Stamp]
    BY <1>1, <1>5 DEF DataInv, FilesData
  <2> QED
    BY <1>1, <1>4, <2>1, GoodStays DEF DataInv, FilesData, Grows
<1> QED
  BY <1>1, <1>4, <1>6, <1>8, <1>9, DataMoves DEF DataInv

\* What the database is, as a copy of it.
LEMMA CopyIsGood ==
  ASSUME LiveData
  PROVE  GoodFile([table |-> table, next |-> next])
BY DEF LiveData, GoodFile

LEMMA JobStepData ==
  ASSUME DataInv, NEW s \in Stamp, MakeBackup(s), Rejected => Rejected',
         LiveData', JobData(s)',
         \A q \in Stamp : \A file : file = archive'[q] => file = archive[q] \/ GoodFile(file)'
  PROVE  DataInv'
<1>1. UNCHANGED <<next, stamps, second, disk, aside, restore, sched>>
  BY DEF MakeBackup, JobRead, JobRun, DumpDatabase, Mix, Pack, JobSave, RotateList, RotateFile, RotateRow,
         JobUnchanged, timer
<1>2. Grows
  BY <1>1, BackupsAssumption DEF Grows, DataInv, LiveData, GoodTable
<1>3. \A file : GoodFile(file) => GoodFile(file)'
  BY <1>2, GoodStays DEF DataInv, Grows
<1>4. DOMAIN archive' = Stamp
  BY DEF DataInv, FilesData, MakeBackup, JobRead, JobRun, DumpDatabase, Mix, Pack, JobSave, RotateList, RotateFile,
         RotateRow
<1>5. FilesData'
  <2>1. \A q \in Stamp : \A file : file = archive'[q] => GoodFile(file)'
    BY <1>3 DEF DataInv, FilesData
  <2>2. \A r \in Restore : \A file : file = aside'[r] => GoodFile(file)'
    BY <1>1, <1>3 DEF DataInv, FilesData
  <2>3. \A file : file = disk' => GoodFile(file)'
    BY <1>1, <1>3 DEF DataInv, FilesData
  <2> QED
    BY <1>1, <1>4, <2>1, <2>2, <2>3 DEF DataInv, FilesData
<1>6. DOMAIN job' = Stamp /\ \A q \in Stamp \ {s} : job'[q] = job[q]
  BY DEF DataInv, MakeBackup, JobRead, JobRun, DumpDatabase, Mix, Pack, JobSave, RotateList, RotateFile, RotateRow
<1> QED
  BY <1>1, <1>2, <1>5, <1>6, DataMoves DEF DataInv

LEMMA MakeData ==
  ASSUME DataInv, NEW s \in Stamp, MakeBackup(s)
  PROVE  DataInv'
<1>1. /\ JobData(s) /\ DOMAIN job = Stamp /\ UNCHANGED <<next, stamps>> /\ LiveData /\ FilesData
      /\ Rejected => Rejected'
  BY DEF DataInv, MakeBackup, JobRead, JobRun, DumpDatabase, Mix, Pack, JobSave, RotateList, RotateFile, RotateRow,
         JobUnchanged, timer, Rejected, Save, Erase
<1>2. /\ \A row : GoodRow(row) => GoodRow(row)'
      /\ \A file : GoodFile(file) => GoodFile(file)'
      /\ \A i : Known(i) => Known(i)'
  BY <1>1, GoodStays DEF LiveData, Known
<1>3. ASSUME UNCHANGED table PROVE LiveData'
  <2>1. GoodTable(table, next) => GoodTable(table, next)'
    <3>1. \A i \in Id : \A row : row = table[i] /\ row # None /\ GoodRow(row) => GoodRow(row)'
      BY <1>2
    <3> QED
      BY <1>1, <1>3, <3>1 DEF GoodTable
  <2> QED
    BY <1>1, <2>1 DEF LiveData
<1>4. ASSUME job[s].pc # "idle", job'[s].id = job[s].id,
             job'[s].pc \in Making \ {"read"} => GoodRow(job'[s].row),
             job'[s].pc = "save" => job'[s].row.status \in {"completed", "failed"},
             GoodFile(job'[s].copy)
      PROVE  JobData(s)'
  BY <1>1, <1>2, <1>4 DEF JobData
<1>5. JobData(s)' \/ job'[s] # Idle
  BY <1>2, IdleData DEF JobData, Making
<1>6. CASE JobRead(s)
  <2>1. UNCHANGED <<table, archive>>
    BY <1>6 DEF JobRead
  <2>2. JobData(s)'
    <3>1. CASE table[job[s].id] = None
      BY <1>1, <1>5, <1>6, <3>1 DEF JobRead
    <3>2. CASE table[job[s].id] # None
      <4>1. /\ job[s].pc = "read" /\ job'[s].pc = "run" /\ job'[s].row = table[job[s].id] /\ job'[s].id = job[s].id
            /\ job'[s].copy = job[s].copy
        BY <1>1, <1>6, <3>2 DEF JobRead
      <4>2. GoodRow(table[job[s].id])
        BY <1>1, <3>2, <4>1 DEF JobData, Known, LiveData, GoodTable
      <4> QED
        BY <1>1, <1>4, <4>1, <4>2 DEF JobData
    <3> QED
      BY <3>1, <3>2
  <2> QED
    BY <1>1, <1>3, <2>1, <2>2, JobStepData
<1>7. CASE JobRun(s)
  <2>1. GoodRow(job[s].row) /\ Known(job[s].id) /\ job[s].pc = "run" /\ UNCHANGED archive
    BY <1>1, <1>7 DEF JobRun, JobData, Making
  <2>2. PICK row : row = [job[s].row EXCEPT !.status = "running"]
    OBVIOUS
  <2>3. GoodRow(row)
    BY <2>1, <2>2, RowKeepsGood DEF Status
  <2>4. PICK i, old : i = job[s].id /\ Save(i, old, row)
    BY <1>7, <2>2 DEF JobRun
  <2>5. LiveData'
    BY <1>1, <1>2, <2>1, <2>3, <2>4, GoodSaved
  <2>6. job'[s].pc = "dump" /\ job'[s].row = row /\ job'[s].id = job[s].id /\ job'[s].copy = job[s].copy
    BY <1>1, <1>7, <2>2 DEF JobRun
  <2>7. JobData(s)'
    BY <1>1, <1>4, <2>1, <2>3, <2>6 DEF JobData
  <2> QED
    BY <1>1, <2>1, <2>5, <2>7, JobStepData
<1>8. CASE DumpDatabase(s)
  <2>1. GoodRow(job[s].row) /\ job[s].pc = "dump" /\ UNCHANGED <<table, archive>>
    BY <1>1, <1>8 DEF DumpDatabase, JobData, Making
  <2>2. CASE job' = [job EXCEPT ![s].pc = "save", ![s].row.status = "failed"]
    <3>1. /\ job'[s].pc = "save" /\ job'[s].id = job[s].id /\ job'[s].copy = job[s].copy
          /\ job'[s].row = [job[s].row EXCEPT !.status = "failed"]
      BY <1>1, <2>2
    <3>2. GoodRow(job'[s].row) /\ job'[s].row.status = "failed"
      <4>1. PICK row : row = job[s].row
        OBVIOUS
      <4>2. GoodRow(row) /\ "failed" \in Status
        BY <2>1, <4>1 DEF Status
      <4>3. GoodRow([row EXCEPT !.status = "failed"]) /\ [row EXCEPT !.status = "failed"].status = "failed"
        BY <4>2, RowKeepsGood
      <4> QED
        BY <3>1, <4>1, <4>3
    <3> QED
      BY <1>1, <1>3, <1>4, <2>1, <3>1, <3>2, JobStepData DEF JobData
  <2>3. ASSUME NEW copy, copy = IF disk = Live THEN [table |-> table, next |-> next] ELSE disk,
               job' = [job EXCEPT ![s].pc = "pack", ![s].copy = copy]
        PROVE  DataInv'
    <3>1. job'[s].pc = "pack" /\ job'[s].id = job[s].id /\ job'[s].copy = copy /\ job'[s].row = job[s].row
      BY <1>1, <2>3
    <3>2. GoodFile(copy)
      BY <1>1, <2>3, CopyIsGood DEF FilesData
    <3> QED
      BY <1>1, <1>3, <1>4, <2>1, <3>1, <3>2, JobStepData
  <2> QED
    BY <1>8, <2>2, <2>3 DEF DumpDatabase
<1>9. CASE Pack(s)
  <2>1. GoodRow(job[s].row) /\ job[s].pc = "pack" /\ UNCHANGED table /\ GoodFile(job[s].copy)
    BY <1>1, <1>9 DEF Pack, JobData, Making
  <2>2. ASSUME archive' \in {archive, [archive EXCEPT ![second[s]] = Broken]},
               job' = [job EXCEPT ![s].pc = "save", ![s].copy = None, ![s].row.status = "failed"]
        PROVE  DataInv'
    <3>1. /\ job'[s].pc = "save" /\ job'[s].id = job[s].id /\ job'[s].copy = None
          /\ job'[s].row = [job[s].row EXCEPT !.status = "failed"]
      BY <1>1, <2>2
    <3>2. GoodRow(job'[s].row) /\ job'[s].row.status = "failed"
      <4>1. PICK row : row = job[s].row
        OBVIOUS
      <4>2. GoodRow(row) /\ "failed" \in Status
        BY <2>1, <4>1 DEF Status
      <4>3. GoodRow([row EXCEPT !.status = "failed"]) /\ [row EXCEPT !.status = "failed"].status = "failed"
        BY <4>2, RowKeepsGood
      <4> QED
        BY <3>1, <4>1, <4>3
    <3>3. GoodFile(Broken)' /\ \A q \in Stamp : archive'[q] = archive[q] \/ archive'[q] = Broken
      BY <1>1, <2>2 DEF FilesData, GoodFile
    <3>4. \A q \in Stamp : \A new : new = archive'[q] => new = archive[q] \/ GoodFile(new)'
      BY <3>3
    <3> QED
      BY <1>1, <1>3, <1>4, <2>1, <3>1, <3>2, <3>4, IdleData, JobStepData
  <2>3. ASSUME NEW ok \in {"completed", "failed"}, archive' = [archive EXCEPT ![second[s]] = job[s].copy],
               job' = [job EXCEPT ![s].pc = "save", ![s].copy = None, ![s].row.enc = TRUE, ![s].row.status = ok]
        PROVE  DataInv'
    <3>1. /\ job'[s].pc = "save" /\ job'[s].id = job[s].id /\ job'[s].copy = None
          /\ job'[s].row = [job[s].row EXCEPT !.enc = TRUE, !.status = ok]
      BY <1>1, <2>3
    <3>2. GoodRow(job'[s].row) /\ job'[s].row.status = ok
      <4>1. PICK row : row = job[s].row
        OBVIOUS
      <4>2. GoodRow(row) /\ ok \in Status
        BY <2>1, <4>1 DEF Status
      <4>3. /\ GoodRow([row EXCEPT !.enc = TRUE, !.status = ok])
            /\ [row EXCEPT !.enc = TRUE, !.status = ok].status = ok
        BY <4>2, RowKeepsGood
      <4> QED
        BY <3>1, <4>1, <4>3
    <3>3. \A q \in Stamp : \A new : new = archive'[q] => new = archive[q] \/ GoodFile(new)'
      <4>1. PICK file : file = job[s].copy
        OBVIOUS
      <4>2. GoodFile(file)' /\ \A q \in Stamp : archive'[q] = archive[q] \/ archive'[q] = file
        BY <1>1, <1>2, <2>1, <2>3, <4>1 DEF FilesData
      <4> QED
        BY <4>2
    <3> QED
      BY <1>1, <1>3, <1>4, <2>1, <2>3, <3>1, <3>2, <3>3, IdleData, JobStepData
  <2> QED
    BY <1>9, <2>2, <2>3 DEF Pack
<1>10. CASE JobSave(s)
  <2>1. GoodRow(job[s].row) /\ Known(job[s].id) /\ job[s].pc = "save" /\ UNCHANGED archive
    BY <1>1, <1>10 DEF JobSave, JobData, Making
  <2>2. PICK i, row : i = job[s].id /\ row = job[s].row
    OBVIOUS
  <2>6. PICK old : Save(i, old, row)
    BY <1>10, <2>2 DEF JobSave
  <2>3. LiveData'
    BY <1>1, <1>2, <2>1, <2>2, <2>6, GoodSaved
  <2>4. job'[s] = Idle \/ (job'[s].pc = "list" /\ job'[s].id = job[s].id /\ job'[s].copy = job[s].copy)
    <3>1. job' = [job EXCEPT ![s] = Idle] \/ job' = [job EXCEPT ![s].pc = "list"]
      BY <1>10 DEF JobSave
    <3>2. CASE job' = [job EXCEPT ![s] = Idle]
      BY <1>1, <3>2
    <3>3. CASE job' = [job EXCEPT ![s].pc = "list"]
      BY <1>1, <3>3
    <3> QED
      BY <3>1, <3>2, <3>3
  <2>5. JobData(s)'
    BY <1>1, <1>4, <1>5, <2>1, <2>4 DEF JobData, Making
  <2> QED
    BY <1>1, <2>1, <2>3, <2>5, JobStepData
<1>11. CASE RotateList(s)
  <2>1. job[s].pc = "list" /\ UNCHANGED <<table, archive>>
    BY <1>11 DEF RotateList
  <2>2. job'[s] = Idle \/ (job'[s].pc = "file" /\ job'[s].id = job[s].id /\ job'[s].copy = job[s].copy)
    BY <1>1, <1>11 DEF RotateList
  <2>3. JobData(s)'
    BY <1>1, <1>4, <1>5, <2>1, <2>2 DEF JobData, Making
  <2> QED
    BY <1>1, <1>3, <2>1, <2>3, JobStepData
<1>12. CASE RotateFile(s)
  <2>1. job[s].pc = "file" /\ UNCHANGED table
    BY <1>12 DEF RotateFile
  <2>2. job'[s].pc = "row" /\ job'[s].id = job[s].id /\ job'[s].copy = job[s].copy
    BY <1>1, <1>12 DEF RotateFile
  <2>3. JobData(s)'
    BY <1>1, <1>4, <1>5, <2>1, <2>2 DEF JobData, Making
  <2>4. \A q \in Stamp : archive'[q] = archive[q] \/ archive'[q] = None
    BY <1>1, <1>12 DEF RotateFile, FilesData
  <2>5. GoodFile(None)'
    BY DEF GoodFile
  <2> QED
    BY <1>1, <1>3, <2>1, <2>3, <2>4, <2>5, JobStepData
<1>13. CASE RotateRow(s)
  <2>1. job[s].pc = "row" /\ UNCHANGED archive
    BY <1>13 DEF RotateRow
  <2>2. job'[s] = Idle \/ (job'[s].pc = "file" /\ job'[s].id = job[s].id /\ job'[s].copy = job[s].copy)
    BY <1>1, <1>13 DEF RotateRow
  <2>3. JobData(s)'
    BY <1>1, <1>4, <1>5, <2>1, <2>2 DEF JobData, Making
  <2>4. LiveData'
    BY <1>1, <1>13, GoodErased DEF RotateRow, Erase
  <2> QED
    BY <1>1, <2>1, <2>3, <2>4, JobStepData
<1>14. CASE Mix(s)
  <2>1. GoodRow(job[s].row) /\ job[s].pc = "pack" /\ UNCHANGED <<table, archive>>
    BY <1>1, <1>14 DEF Mix, JobData, Making
  <2>2. /\ job'[s].pc = "pack" /\ job'[s].id = job[s].id /\ job'[s].copy = Broken /\ job'[s].row = job[s].row
    BY <1>1, <1>14 DEF Mix
  <2>3. GoodFile(Broken)
    BY DEF GoodFile
  <2> QED
    BY <1>1, <1>3, <1>4, <2>1, <2>2, <2>3, JobStepData
<1> QED
  BY <1>6, <1>7, <1>8, <1>9, <1>10, <1>11, <1>12, <1>13, <1>14 DEF MakeBackup

LEMMA DeleteData ==
  ASSUME DataInv, DeleteBackup
  PROVE  DataInv'
<1>1. UNCHANGED <<next, stamps, second, disk, job, restore, aside, sched>>
  BY DEF DeleteBackup, DeleteRead, DeleteFiles, DeleteRow, DeleteUnchanged, timer
<1>2. Rejected => Rejected'
  BY DEF DeleteBackup, DeleteRead, DeleteFiles, DeleteRow, Rejected
<1>3. Grows
  BY <1>1, <1>2, BackupsAssumption DEF Grows, DataInv, LiveData, GoodTable
<1>4. \A file : GoodFile(file) => GoodFile(file)'
  BY <1>3, GoodStays DEF DataInv, Grows
<1>5. LiveData'
  <2>1. CASE UNCHANGED table
    <3>1. LiveData /\ \A i \in Id : \A row : row = table[i] /\ row # None /\ GoodRow(row) => GoodRow(row)'
      BY <1>3, GoodStays DEF DataInv, Grows
    <3> QED
      BY <1>1, <2>1, <3>1 DEF LiveData, GoodTable
  <2>2. CASE table' = [table EXCEPT ![deleting.id] = None]
    BY <1>1, <1>2, <2>2, GoodErased DEF DataInv
  <2> QED
    BY <2>1, <2>2 DEF DeleteBackup, DeleteRead, DeleteFiles, DeleteRow
<1>6. DOMAIN archive' = Stamp /\ \A q \in Stamp : archive'[q] = archive[q] \/ archive'[q] = None
  <2>1. UNCHANGED archive \/ archive' = [archive EXCEPT ![second[deleting.row.stamp]] = None]
    BY DEF DeleteBackup, DeleteRead, DeleteFiles, DeleteRow
  <2> QED
    BY <2>1 DEF DataInv, FilesData
<1>7. FilesData'
  <2>1. \A q \in Stamp : \A file : file = archive'[q] => GoodFile(file)'
    BY <1>4, <1>6 DEF DataInv, FilesData, GoodFile
  <2>2. \A r \in Restore : \A file : file = aside'[r] => GoodFile(file)'
    BY <1>1, <1>4 DEF DataInv, FilesData
  <2>3. \A file : file = disk' => GoodFile(file)'
    BY <1>1, <1>4 DEF DataInv, FilesData
  <2> QED
    BY <1>1, <1>6, <2>1, <2>2, <2>3 DEF DataInv, FilesData
<1> QED
  BY <1>1, <1>3, <1>5, <1>7, DataMoves DEF DataInv

\* A step of one restore.
LEMMA RestoreStepData ==
  ASSUME DataInv, UNCHANGED <<next, stamps, second, archive, job, sched>>, Rejected => Rejected',
         NEW r, DOMAIN restore' = Restore, \A q \in Restore : q # r => restore'[q] = restore[q],
         r \in Restore => RestoreData(r)', LiveData',
         DOMAIN aside' = Restore, \A q \in Restore : aside'[q] \in {aside[q], None, disk},
         \/ disk' \in {disk, Broken, None} \/ \E q \in Restore : disk' \in {aside[q], restore[q].copy}
  PROVE  DataInv'
<1>1. Grows
  BY BackupsAssumption DEF Grows, DataInv, LiveData, GoodTable
<1>2. \A file : GoodFile(file) => GoodFile(file)'
  BY <1>1, GoodStays DEF DataInv, Grows
<1>3. FilesData'
  <2>1. \A q \in Stamp : \A file : file = archive'[q] => GoodFile(file)'
    BY <1>2 DEF DataInv, FilesData
  <2>2. \A q \in Restore : \A file : file = aside'[q] => GoodFile(file)'
    <3>1. \A q \in Restore : \A file : file = aside'[q] => GoodFile(file)
      BY DEF DataInv, FilesData, GoodFile
    <3> QED
      BY <1>2, <3>1
  <2>3. \A file : file = disk' => GoodFile(file)'
    <3>1. \A file : file = disk' => GoodFile(file)
      <4>1. CASE disk' \in {disk, Broken, None}
        BY <4>1 DEF DataInv, FilesData, GoodFile
      <4>2. ASSUME NEW q \in Restore, disk' \in {aside[q], restore[q].copy} PROVE \A file : file = disk' => GoodFile(file)
        BY <4>2 DEF DataInv, FilesData, RestoreData
      <4> QED
        BY <4>1, <4>2
    <3> QED
      BY <1>2, <3>1
  <2> QED
    BY <2>1, <2>2, <2>3 DEF DataInv, FilesData
<1> QED
  BY <1>1, <1>3, DataMoves DEF DataInv

LEMMA RestoreStepsData ==
  ASSUME DataInv, RestoreBackup
  PROVE  DataInv'
<1>1. /\ UNCHANGED <<next, stamps, second, archive, job, sched>> /\ LiveData /\ FilesData /\ DOMAIN restore = Restore
      /\ \A r \in Restore : RestoreData(r)
  BY DEF DataInv, RestoreBackup, RestoreRead, RestoreMark, RestoreOpen, RestoreRename, RestoreCopy, RestoreVerify,
         RestoreFiles, RestoreSave, RestoreUnchanged, timer
<1>2. Rejected => Rejected'
  BY DEF Rejected, RestoreBackup, RestoreRead, RestoreMark, RestoreOpen, RestoreRename, RestoreCopy, RestoreVerify,
         RestoreFiles, RestoreSave, Save
<1>3. /\ \A row : GoodRow(row) => GoodRow(row)'
      /\ \A file : GoodFile(file) => GoodFile(file)'
      /\ \A i : Known(i) => Known(i)'
  BY <1>1, <1>2, GoodStays DEF LiveData, Known
<1>4. ASSUME UNCHANGED table PROVE LiveData'
  <2>1. \A i \in Id : \A row : row = table[i] /\ row # None /\ GoodRow(row) => GoodRow(row)'
    BY <1>3
  <2> QED
    BY <1>1, <1>4, <2>1 DEF LiveData, GoodTable
<1>5. ASSUME NEW r \in Restore, Pc(r) # "idle", restore'[r].id = restore[r].id, GoodRow(restore'[r].row),
             Pc(r)' # "mark", Pc(r)' = "save" => restore'[r].row.status \in {"completed", "failed"},
             GoodFile(restore'[r].copy)
      PROVE  RestoreData(r)'
  BY <1>1, <1>3, <1>5 DEF RestoreData, Pc
<1>6. /\ DOMAIN restore' = Restore
      /\ DOMAIN aside' = Restore
  BY <1>1 DEF FilesData, RestoreBackup, RestoreRead, RestoreMark, RestoreOpen, RestoreRename, RestoreCopy, RestoreVerify,
         RestoreFiles, RestoreSave, Fails
<1>7. ASSUME NEW i \in Id, RestoreRead(i) PROVE DataInv'
  <2>1. PICK r : r = left
    OBVIOUS
  <2>2. /\ UNCHANGED <<table, disk, aside>> /\ table[i] # None
        /\ restore' = [restore EXCEPT ![r] = [Idle EXCEPT !.pc = "mark", !.id = i, !.row = table[i]]]
    BY <1>7, <2>1 DEF RestoreRead, Having, Rows
  <2>0. table[i].status = "completed"
    BY <1>7 DEF RestoreRead, Having
  <2>3. r \in Restore => RestoreData(r)'
    <3> SUFFICES ASSUME r \in Restore PROVE RestoreData(r)'
      OBVIOUS
    <3>1. restore'[r].pc = "mark" /\ restore'[r].id = i /\ restore'[r].row = table[i] /\ restore'[r].copy = None
      BY <1>1, <2>2 DEF Idle
    <3>2. Known(i)' /\ GoodRow(table[i])
      BY <1>1, <1>3, <2>2 DEF LiveData, GoodTable, Known
    <3> QED
      BY <1>3, <2>0, <3>1, <3>2 DEF RestoreData, Pc, GoodFile
  <2> QED
    BY <1>1, <1>2, <1>4, <1>6, <2>2, <2>3, RestoreStepData
<1>8. ASSUME NEW r \in Restore, Fails(r), Pc(r) # "idle" PROVE RestoreData(r)'
  <2>1. /\ restore'[r].pc = "save" /\ restore'[r].id = restore[r].id /\ restore'[r].copy = None
        /\ restore'[r].row = [restore[r].row EXCEPT !.status = "failed"]
    BY <1>1, <1>8 DEF Fails
  <2>2. PICK row : row = restore[r].row
    OBVIOUS
  <2>3. GoodRow(row) /\ "failed" \in Status
    BY <1>1, <1>8, <2>2 DEF RestoreData, Status
  <2>4. GoodRow([row EXCEPT !.status = "failed"]) /\ [row EXCEPT !.status = "failed"].status = "failed"
    BY <2>3, RowKeepsGood
  <2> QED
    BY <1>5, <1>8, <2>1, <2>2, <2>4 DEF GoodFile, Pc
<1>9. ASSUME NEW r \in Restore, RestoreMark(r) PROVE DataInv'
  <2>1. /\ Pc(r) # "idle" /\ UNCHANGED <<disk, aside>> /\ Known(restore[r].id) /\ GoodRow(restore[r].row)
        /\ GoodFile(restore[r].copy)
    BY <1>1, <1>9 DEF RestoreMark, Pc, RestoreData
  <2>2. PICK row : row = [restore[r].row EXCEPT !.status = "restoring"]
    OBVIOUS
  <2>3. GoodRow(row)
    <3>1. PICK old : old = restore[r].row
      OBVIOUS
    <3>2. GoodRow(old) /\ "restoring" \in Status
      BY <2>1, <3>1 DEF Status
    <3> QED
      BY <2>2, <3>1, <3>2, RowKeepsGood
  <2>4. PICK i, old : i = restore[r].id /\ Save(i, old, row)
    BY <1>9, <2>2 DEF RestoreMark
  <2>5. LiveData'
    BY <1>1, <1>2, <1>3, <2>1, <2>3, <2>4, GoodSaved
  <2>6. /\ restore'[r].pc = "open" /\ restore'[r].id = restore[r].id /\ restore'[r].row = row
        /\ restore'[r].copy = restore[r].copy
    BY <1>1, <1>9, <2>2 DEF RestoreMark
  <2>7. RestoreData(r)'
    BY <1>5, <2>1, <2>3, <2>6 DEF Pc
  <2>8. \A q \in Restore : q # r => restore'[q] = restore[q]
    BY <1>1, <1>9 DEF RestoreMark
  <2> QED
    BY <1>1, <1>2, <1>6, <2>1, <2>5, <2>7, <2>8, RestoreStepData
<1>10. ASSUME NEW r \in Restore, RestoreOpen(r) PROVE DataInv'
  <2>1. Pc(r) # "idle" /\ UNCHANGED <<table, disk, aside>> /\ GoodRow(restore[r].row)
    BY <1>1, <1>10 DEF RestoreOpen, Pc, RestoreData
  <2>2. RestoreData(r)'
    <3>1. CASE Fails(r)
      BY <1>8, <2>1, <3>1
    <3>2. CASE restore' = [restore EXCEPT ![r].pc = "rename", ![r].copy = archive[second[restore[r].row.stamp]]]
      <4>1. /\ restore'[r].pc = "rename" /\ restore'[r].id = restore[r].id /\ restore'[r].row = restore[r].row
            /\ restore'[r].copy = archive[second[restore[r].row.stamp]]
        BY <1>1, <3>2
      <4>2. second[restore[r].row.stamp] \in Stamp
        BY <1>1, <2>1 DEF GoodRow, Row, FilesData
      <4>3. GoodFile(archive[second[restore[r].row.stamp]])
        BY <1>1, <4>2 DEF FilesData
      <4> QED
        BY <1>5, <2>1, <4>1, <4>3 DEF Pc
    <3> QED
      BY <1>10, <3>1, <3>2 DEF RestoreOpen
  <2>3. \A q \in Restore : q # r => restore'[q] = restore[q]
    BY <1>1, <1>10 DEF RestoreOpen, Fails
  <2> QED
    BY <1>1, <1>2, <1>4, <1>6, <2>1, <2>2, <2>3, RestoreStepData
<1>11. ASSUME NEW r \in Restore, RestoreRename(r) PROVE DataInv'
  <2>1. /\ Pc(r) # "idle" /\ UNCHANGED table /\ disk' = None /\ aside' = [aside EXCEPT ![r] = disk]
        /\ GoodRow(restore[r].row) /\ GoodFile(restore[r].copy)
    BY <1>1, <1>11 DEF RestoreRename, Pc, RestoreData
  <2>2. /\ restore'[r].pc = "copy" /\ restore'[r].id = restore[r].id /\ restore'[r].row = restore[r].row
        /\ restore'[r].copy = restore[r].copy
        /\ \A q \in Restore : q # r => restore'[q] = restore[q]
    BY <1>1, <1>11 DEF RestoreRename
  <2>3. RestoreData(r)'
    BY <1>5, <2>1, <2>2 DEF Pc
  <2>4. \A q \in Restore : aside'[q] \in {aside[q], None, disk}
    BY <1>1, <2>1 DEF FilesData
  <2> QED
    BY <1>1, <1>2, <1>4, <1>6, <2>1, <2>2, <2>3, <2>4, RestoreStepData
<1>12. ASSUME NEW r \in Restore, RestoreCopy(r) PROVE DataInv'
  <2>1. /\ Pc(r) # "idle" /\ UNCHANGED <<table, aside>> /\ disk' \in {disk, Broken, restore[r].copy}
        /\ GoodRow(restore[r].row)
    BY <1>1, <1>12 DEF RestoreCopy, Pc, RestoreData
  <2>2. RestoreData(r)'
    <3>1. CASE Fails(r)
      BY <1>8, <2>1, <3>1
    <3>2. CASE restore' = [restore EXCEPT ![r].pc = "verify", ![r].copy = None]
      <4>1. /\ restore'[r].pc = "verify" /\ restore'[r].id = restore[r].id /\ restore'[r].row = restore[r].row
            /\ restore'[r].copy = None
        BY <1>1, <3>2
      <4> QED
        BY <1>5, <2>1, <4>1 DEF Pc, GoodFile
    <3> QED
      BY <1>12, <3>1, <3>2 DEF RestoreCopy
  <2>3. \A q \in Restore : q # r => restore'[q] = restore[q]
    BY <1>1, <1>12 DEF RestoreCopy, Fails
  <2> QED
    BY <1>1, <1>2, <1>4, <1>6, <2>1, <2>2, <2>3, RestoreStepData
<1>13. ASSUME NEW r \in Restore, RestoreVerify(r) PROVE DataInv'
  <2>1. /\ Pc(r) # "idle" /\ UNCHANGED table /\ disk' \in {disk, aside[r]} /\ aside' = [aside EXCEPT ![r] = None]
        /\ GoodRow(restore[r].row) /\ GoodFile(restore[r].copy)
    BY <1>1, <1>13 DEF RestoreVerify, Pc, RestoreData
  <2>2. RestoreData(r)'
    <3>1. CASE Fails(r)
      BY <1>8, <2>1, <3>1
    <3>2. CASE restore' = [restore EXCEPT ![r].pc = "files"]
      <4>1. /\ restore'[r].pc = "files" /\ restore'[r].id = restore[r].id /\ restore'[r].row = restore[r].row
            /\ restore'[r].copy = restore[r].copy
        BY <1>1, <3>2
      <4> QED
        BY <1>5, <2>1, <4>1 DEF Pc
    <3> QED
      BY <1>13, <3>1, <3>2 DEF RestoreVerify
  <2>3. /\ \A q \in Restore : q # r => restore'[q] = restore[q]
        /\ \A q \in Restore : aside'[q] \in {aside[q], None, disk}
    BY <1>1, <1>13 DEF RestoreVerify, Fails, FilesData
  <2> QED
    BY <1>1, <1>2, <1>4, <1>6, <2>1, <2>2, <2>3, RestoreStepData
<1>14. ASSUME NEW r \in Restore, RestoreFiles(r) PROVE DataInv'
  <2>1. /\ Pc(r) # "idle" /\ UNCHANGED <<table, disk, aside>> /\ GoodRow(restore[r].row) /\ GoodFile(restore[r].copy)
    BY <1>1, <1>14 DEF RestoreFiles, Pc, RestoreData
  <2>2. RestoreData(r)'
    <3>1. CASE Fails(r)
      BY <1>8, <2>1, <3>1
    <3>2. CASE restore' = [restore EXCEPT ![r].pc = "save", ![r].row.status = "completed"]
      <4>1. /\ restore'[r].pc = "save" /\ restore'[r].id = restore[r].id
            /\ restore'[r].row = [restore[r].row EXCEPT !.status = "completed"]
            /\ restore'[r].copy = restore[r].copy
        BY <1>1, <3>2
      <4>2. PICK row : row = restore[r].row
        OBVIOUS
      <4>3. GoodRow(row) /\ "completed" \in Status
        BY <2>1, <4>2 DEF Status
      <4>4. GoodRow([row EXCEPT !.status = "completed"]) /\ [row EXCEPT !.status = "completed"].status = "completed"
        BY <4>3, RowKeepsGood
      <4> QED
        BY <1>5, <2>1, <4>1, <4>2, <4>4 DEF Pc
    <3> QED
      BY <1>14, <3>1, <3>2 DEF RestoreFiles
  <2>3. \A q \in Restore : q # r => restore'[q] = restore[q]
    BY <1>1, <1>14 DEF RestoreFiles, Fails
  <2> QED
    BY <1>1, <1>2, <1>4, <1>6, <2>1, <2>2, <2>3, RestoreStepData
<1>15. ASSUME NEW r \in Restore, RestoreSave(r) PROVE DataInv'
  <2>1. UNCHANGED <<disk, aside>> /\ Known(restore[r].id) /\ GoodRow(restore[r].row)
    BY <1>1, <1>15 DEF RestoreSave, Pc, RestoreData
  <2>2. PICK i, row : i = restore[r].id /\ row = restore[r].row
    OBVIOUS
  <2>3. PICK old : Save(i, old, row)
    BY <1>15, <2>2 DEF RestoreSave
  <2>4. LiveData'
    BY <1>1, <1>2, <1>3, <2>1, <2>2, <2>3, GoodSaved
  <2>5. restore'[r] = Idle /\ \A q \in Restore : q # r => restore'[q] = restore[q]
    BY <1>1, <1>15 DEF RestoreSave
  <2>6. RestoreData(r)'
    BY <2>5, IdleData DEF RestoreData, Pc, GoodFile
  <2> QED
    BY <1>1, <1>2, <1>6, <2>1, <2>4, <2>5, <2>6, RestoreStepData
<1> QED
  BY <1>7, <1>9, <1>10, <1>11, <1>12, <1>13, <1>14, <1>15 DEF RestoreBackup

LEMMA SetScheduleData ==
  ASSUME DataInv, SetSchedule
  PROVE  DataInv'
<1>0. UNCHANGED <<second, archive, disk, job, restore, aside>>
  BY DEF SetSchedule, UpdateSchedule, SchedClear, SchedLatest, SchedSave, SchedEntry, SchedUnchanged
<1>1. /\ UNCHANGED <<second, archive, disk, job, restore, aside>> /\ LiveData /\ FilesData /\ SchedData
      /\ DOMAIN job = Stamp /\ DOMAIN restore = Restore /\ next \in Nat /\ stamps \in Nat
  BY <1>0, BackupsAssumption DEF DataInv, LiveData, GoodTable
<1>2. Rejected => Rejected'
  BY DEF Rejected, SetSchedule, UpdateSchedule, SchedClear, SchedLatest, SchedSave, SchedEntry, Save
<1>3. ASSUME Grows, LiveData', SchedData' PROVE DataInv'
  <2>1. \A file : GoodFile(file) => GoodFile(file)'
    BY <1>1, <1>3, GoodStays DEF Grows
  <2>2. FilesData'
    BY <1>1, <2>1 DEF FilesData
  <2> QED
    BY <1>1, <1>3, <2>2, DataMoves
<1>4. ASSUME UNCHANGED <<next, stamps>> PROVE Grows
  BY <1>1, <1>2, <1>4 DEF Grows, LiveData
<1>5. ASSUME UNCHANGED <<table, next, stamps>>, SchedData' PROVE DataInv'
  <2>1. Grows
    BY <1>4, <1>5
  <2>2. \A i \in Id : \A row : row = table[i] /\ row # None /\ GoodRow(row) => GoodRow(row)'
    BY <1>1, <2>1, GoodStays DEF Grows
  <2>3. LiveData'
    BY <1>1, <1>5, <2>2 DEF LiveData, GoodTable
  <2> QED
    BY <1>3, <1>5, <2>1, <2>3
<1>6. ASSUME NEW c \in Crons \cup {None}, UpdateSchedule(c) PROVE DataInv'
  <2>1. UNCHANGED <<table, next, stamps>> /\ sched' = [IdleSched EXCEPT !.pc = "clear", !.cron = c]
    BY <1>6 DEF UpdateSchedule
  <2>2. sched'.pc = "clear" /\ sched'.cron = c /\ DOMAIN sched' = {"pc", "id", "row", "cron"}
    BY <2>1 DEF IdleSched
  <2>3. c \in Accepted \cup {None} \/ Rejected'
    BY <1>6 DEF UpdateSchedule, Rejected
  <2> QED
    BY <1>5, <2>1, <2>2, <2>3 DEF SchedData
<1>7. CASE SchedClear
  <2>1. /\ UNCHANGED <<next, stamps, excuse>> /\ sched' = [sched EXCEPT !.pc = "latest"] /\ sched.pc = "clear"
        /\ table' = [i \in Id |-> IF i \in Rows THEN [table[i] EXCEPT !.cron = None] ELSE None]
    BY <1>7 DEF SchedClear
  <2>2. sched'.pc = "latest" /\ sched'.cron = sched.cron /\ DOMAIN sched' = DOMAIN sched
    BY <1>1, <2>1 DEF SchedData
  <2>3. SchedData'
    BY <1>1, <2>1, <2>2 DEF SchedData, Rejected
  <2>4. ASSUME NEW i \in Id, NEW new, new = table'[i], new # None PROVE i < next' /\ GoodRow(new)'
    <3>1. PICK row : row = table[i]
      OBVIOUS
    <3>2. row # None /\ new = [row EXCEPT !.cron = None] /\ i < next /\ GoodRow(row)
      BY <1>1, <2>1, <2>4, <3>1 DEF Rows, LiveData, GoodTable
    <3>3. GoodRow(new)
      BY <3>2, RowKeepsGood
    <3> QED
      BY <1>1, <2>1, <3>2, <3>3, GoodStays DEF LiveData, Rejected
  <2>5. LiveData'
    <3>1. DOMAIN table' = Id /\ table' = [i \in Id |-> table'[i]]
      BY <2>1
    <3>2. \A i \in Id : table'[i] \in Row \cup {None}
      BY <2>4 DEF GoodRow
    <3>3. table' \in [Id -> Row \cup {None}]
      BY <3>1, <3>2
    <3> QED
      BY <1>1, <2>1, <2>4, <3>3 DEF LiveData, GoodTable
  <2> QED
    BY <1>3, <1>4, <2>1, <2>3, <2>5
<1>8. CASE SchedLatest
  <2>1. CASE Rows = {}
    <3>1. Insert([New EXCEPT !.cron = sched.cron]) /\ sched' = [sched EXCEPT !.pc = "entry"] /\ sched.pc = "latest"
      BY <1>8, <2>1 DEF SchedLatest
    <3>2. PICK row : row = [New EXCEPT !.cron = sched.cron]
      OBVIOUS
    <3>3. row \in Row /\ row.cron = sched.cron
      <4>1. stamps < MaxBackups /\ sched.cron \in Crons \cup {None}
        BY <1>1, <3>1 DEF Insert, SchedData
      <4>2. row \in Row
        BY <1>1, <3>2, <4>1, NewIs DEF LiveData
      <4>3. PICK new : new = New
        OBVIOUS
      <4>4. new \in Row /\ row = [new EXCEPT !.cron = sched.cron]
        BY <1>1, <3>2, <4>1, <4>3, NewIs DEF LiveData
      <4> QED
        BY <4>1, <4>2, <4>4 DEF Row
    <3>4. GoodRow(row)'
      BY <1>1, <1>2, <3>3 DEF SchedData, GoodRow
    <3>5. LiveData' /\ Grows
      BY <1>1, <1>2, <3>1, <3>2, <3>4, GoodInserted
    <3>6. sched'.pc = "entry" /\ sched'.cron = sched.cron /\ DOMAIN sched' = DOMAIN sched
      BY <1>1, <3>1 DEF SchedData
    <3>7. SchedData'
      BY <1>1, <1>2, <3>6 DEF SchedData
    <3> QED
      BY <1>3, <3>5, <3>7
  <2>2. CASE Rows # {}
    <3>1. /\ UNCHANGED <<table, next, stamps>> /\ sched.pc = "latest" /\ excuse' = excuse
          /\ sched' = [sched EXCEPT !.pc = "save", !.id = Latest(Rows), !.row = table[Latest(Rows)]]
      BY <1>8, <2>2 DEF SchedLatest
    <3>2. PICK i, row : i = Latest(Rows) /\ row = table[i]
      OBVIOUS
    <3>3. i \in Id /\ row # None /\ i < next /\ GoodRow(row)
      BY <1>1, <2>2, <3>2, LatestIn DEF Rows, LiveData, GoodTable, GoodRow, Row
    <3>4. /\ sched'.cron = sched.cron /\ sched'.pc = "save" /\ DOMAIN sched' = DOMAIN sched
          /\ sched'.id = i /\ sched'.row = row
      BY <1>1, <3>1, <3>2 DEF SchedData
    <3>5. SchedData'
      BY <1>1, <3>1, <3>3, <3>4 DEF SchedData, Rejected, Known, GoodRow
    <3> QED
      BY <1>5, <3>1, <3>5
  <2> QED
    BY <2>1, <2>2
<1>9. CASE SchedSave
  <2>1. /\ UNCHANGED <<next, stamps>> /\ sched' = [sched EXCEPT !.pc = "entry"] /\ sched.pc = "save"
        /\ Save(sched.id, sched.row, [sched.row EXCEPT !.cron = sched.cron])
    BY <1>9 DEF SchedSave
  <2>2. PICK i, old, new : i = sched.id /\ old = sched.row /\ new = [old EXCEPT !.cron = sched.cron]
    OBVIOUS
  <2>3. Known(i) /\ GoodRow(old) /\ Save(i, old, new) /\ sched.cron \in Crons \cup {None}
        /\ (sched.cron \in Accepted \cup {None} \/ Rejected)
    BY <1>1, <2>1, <2>2 DEF SchedData
  <2>4. GoodRow(new)
    BY <2>2, <2>3, RowKeepsGood
  <2>5. GoodRow(new)'
    BY <1>2, <2>4 DEF GoodRow
  <2>6. LiveData'
    BY <1>1, <1>2, <2>1, <2>3, <2>5, GoodSaved
  <2>7. sched'.cron = sched.cron /\ sched'.pc = "entry" /\ DOMAIN sched' = DOMAIN sched
    BY <1>1, <2>1 DEF SchedData
  <2>8. SchedData'
    BY <1>1, <1>2, <2>3, <2>7 DEF SchedData
  <2> QED
    BY <1>3, <1>4, <2>1, <2>6, <2>8
<1>10. CASE SchedEntry
  <2>1. UNCHANGED <<table, next, stamps>> /\ sched' = IdleSched
    BY <1>10 DEF SchedEntry
  <2> QED
    BY <1>5, <2>1, IdleData, DomainIs DEF SchedData
<1> QED
  BY <1>6, <1>7, <1>8, <1>9, <1>10 DEF SetSchedule

\* What a process finds when it starts.
LEMMA FoundGood ==
  ASSUME Parameters, LiveData, GoodFile(disk), disk # Broken, NEW found, found = Found
  PROVE  GoodTable(found.table, found.next)
<1>1. CASE disk = Live
  <2>1. found = [table |-> table, next |-> next]
    BY <1>1 DEF Parameters, Found
  <2> QED
    BY <2>1 DEF LiveData
<1>2. CASE disk = None
  <2>1. found = [table |-> [i \in Id |-> None], next |-> 1]
    BY <1>2 DEF Parameters, Found
  <2>2. PICK t : t = [i \in Id |-> None]
    OBVIOUS
  <2>3. GoodTable(t, 1)
    BY <2>2, BackupsAssumption DEF LiveData, GoodTable
  <2> QED
    BY <2>1, <2>2, <2>3
<1>3. CASE disk \notin {Live, None}
  <2>1. found = disk
    BY <1>3 DEF Found
  <2> QED
    BY <1>3, <2>1 DEF GoodFile
<1> QED
  BY <1>1, <1>2, <1>3

\* The clean-up changes what some rows say of their backups, and no more.
LEMMA CleanedGood ==
  ASSUME NEW t, NEW n, GoodTable(t, n), NEW old, NEW new, new = CleanupStaleBackups(t, old)
  PROVE  /\ GoodTable(new, n)
         /\ \A i \in Id : new[i] # None =>
              t[i] # None /\ new[i].stamp = t[i].stamp /\ new[i].cron = t[i].cron
              /\ (new[i] = t[i] \/ new[i].status = "failed")
<1>1. DOMAIN new = Id /\ \A i \in Id : new[i] = t[i] \/ (t[i] # None /\ new[i] = [t[i] EXCEPT !.status = "failed"])
  BY DEF CleanupStaleBackups, Unfinished
<1>2. ASSUME NEW i \in Id, NEW row, row = t[i], row # None, NEW failed, failed = [row EXCEPT !.status = "failed"]
      PROVE  GoodRow(failed) /\ failed.stamp = row.stamp /\ failed.cron = row.cron /\ failed.status = "failed"
  <2>1. row \in Row /\ GoodRow(row) /\ "failed" \in Status
    BY <1>2 DEF GoodTable, GoodRow, Status
  <2>2. failed.stamp = row.stamp /\ failed.cron = row.cron /\ failed.status = "failed"
    BY <1>2, <2>1 DEF Row
  <2> QED
    BY <1>2, <2>1, <2>2, RowKeepsGood
<1>3. ASSUME NEW i \in Id, NEW row, row = new[i], row # None
      PROVE  GoodRow(row) /\ i < n /\ t[i] # None /\ row.stamp = t[i].stamp /\ row.cron = t[i].cron
             /\ (row = t[i] \/ row.status = "failed")
  <2>1. CASE row = t[i]
    BY <1>3, <2>1 DEF GoodTable
  <2>2. CASE t[i] # None /\ row = [t[i] EXCEPT !.status = "failed"]
    BY <1>2, <2>2 DEF GoodTable
  <2> QED
    BY <1>1, <1>3, <2>1, <2>2
<1>4. new \in [Id -> Row \cup {None}]
  <2>1. \A i \in Id : new[i] \in Row \cup {None}
    BY <1>3 DEF GoodRow
  <2>2. new = [i \in Id |-> new[i]]
    BY DEF CleanupStaleBackups
  <2> QED
    BY <2>1, <2>2
<1> QED
  BY <1>3, <1>4 DEF GoodTable

LEMMA RestartData ==
  ASSUME Parameters, DataInv, NEW old \in aged..stamps, Restart(old)
  PROVE  DataInv'
<1>1. /\ UNCHANGED <<stamps, second, archive, aside>> /\ disk' = Live /\ disk # Broken
      /\ job' = [s \in Stamp |-> Idle] /\ restore' = [r \in Restore |-> Idle] /\ sched' = IdleSched
      /\ Rejected => Rejected'
  BY DEF Restart, Rejected
<1>2. LiveData /\ FilesData
  BY DEF DataInv
<1>3. PICK found : found = Found
  OBVIOUS
<1>4. GoodTable(found.table, found.next)
  BY <1>1, <1>2, <1>3, FoundGood DEF FilesData
<1>5. PICK t, n : t = found.table /\ n = found.next
  OBVIOUS
<1>6. PICK new : new = CleanupStaleBackups(t, old)
  OBVIOUS
<1>7. table' = new /\ next' = n
  BY <1>3, <1>5, <1>6 DEF Restart
<1>8. GoodTable(new, n)
  BY <1>4, <1>5, <1>6, CleanedGood
<1>9. /\ \A row : GoodRow(row) => GoodRow(row)'
      /\ \A file : GoodFile(file) => GoodFile(file)'
      /\ \A u, m : GoodTable(u, m) => GoodTable(u, m)'
  BY <1>1, <1>2, GoodStays DEF LiveData
<1>10. LiveData'
  BY <1>1, <1>2, <1>7, <1>8, <1>9 DEF LiveData
<1>11. FilesData'
  <2>1. \A q \in Stamp : \A file : file = archive'[q] => GoodFile(file)'
    BY <1>1, <1>2, <1>9 DEF FilesData
  <2>2. \A r \in Restore : \A file : file = aside'[r] => GoodFile(file)'
    BY <1>1, <1>2, <1>9 DEF FilesData
  <2> QED
    BY <1>1, <1>2, <2>1, <2>2 DEF FilesData, GoodFile
<1>12. \A s \in Stamp : JobData(s)'
  BY <1>1, IdleData DEF JobData, GoodFile, Making
<1>13. \A r \in Restore : RestoreData(r)'
  BY <1>1, IdleData DEF RestoreData, GoodFile, Pc
<1>14. SchedData'
  BY <1>1, IdleData, DomainIs DEF SchedData
<1> QED
  BY <1>1, <1>10, <1>11, <1>12, <1>13, <1>14 DEF DataInv

LEMMA InitData == Init => DataInv
<1> SUFFICES ASSUME Init PROVE DataInv
  OBVIOUS
<1>1. LiveData
  BY BackupsAssumption DEF Init, LiveData, GoodTable
<1>2. FilesData
  BY DEF Init, FilesData, GoodFile
<1>3. SchedData
  BY IdleData, DomainIs DEF Init, SchedData
<1>4. DOMAIN job = Stamp /\ \A s \in Stamp : JobData(s)
  BY IdleData DEF Init, JobData, GoodFile, Making
<1>5. DOMAIN restore = Restore /\ \A r \in Restore : RestoreData(r)
  BY IdleData DEF Init, RestoreData, GoodFile, Pc
<1> QED
  BY <1>1, <1>2, <1>3, <1>4, <1>5 DEF DataInv

LEMMA NextData ==
  ASSUME Parameters, DataInv, [Next]_vars
  PROVE  DataInv'
<1>1. CASE UNCHANGED vars
  BY <1>1 DEF vars, timer, DataInv, LiveData, GoodTable, GoodRow, Rejected, FilesData, GoodFile, SchedData, Known,
              JobData, RestoreData, Pc
<1> QED
  BY <1>1, CreateData, MakeData, DeleteData, RestoreStepsData, SetScheduleData, RestartData DEF Next

-----------------------------------------------------------------------------
(* The schedule.                                                           *)

\* The schedule was lost in one of the known ways.
Lost == Unless({"overwritten", "resurrected", "forgotten", "rejected"})

\* Row i of a table holds the schedule.
Holds(t, i) == t[i] # None /\ t[i].cron # None

TimerInv ==
  /\ ticking
  /\ sched.pc = "idle" => Stored(table) = entry
  /\ sched.pc \in {"latest", "save"} => \A i \in Id : ~Holds(table, i)
  /\ sched.pc = "entry" => Stored(table) = sched.cron

\* Two tables with the same schedules.
Agree(t, u) ==
  \A i \in Id : /\ Holds(t, i) <=> Holds(u, i)
                /\ Holds(t, i) => t[i].cron = u[i].cron /\ t[i].stamp = u[i].stamp

\* The row whose schedule is the stored one.
Holders(t) == {i \in Id : t[i] # None /\ t[i].cron # None}
Holder(t)  == CHOOSE i \in Holders(t) : \A j \in Holders(t) : t[j].stamp <= t[i].stamp

LEMMA StoredIn ==
  ASSUME NEW t, Holders(t) # {}, \A i \in Holders(t) : t[i].stamp \in Stamp
  PROVE  Holder(t) \in Holders(t) /\ Stored(t) = t[Holder(t)].cron
<1> DEFINE S == Holders(t)
<1>1. PICK f : f = [i \in S |-> t[i].stamp]
  OBVIOUS
<1>2. \A i \in S : f[i] = t[i].stamp /\ f[i] \in Stamp
  BY <1>1
<1>3. \E i \in S : \A j \in S : f[j] <= f[i]
  BY <1>2, MaxIn
<1>4. \E i \in S : \A j \in S : t[j].stamp <= t[i].stamp
  BY <1>2, <1>3
<1>5. Holder(t) \in S
  BY <1>4 DEF Holder
<1> QED
  BY <1>5 DEF Stored, Holder, Holders

LEMMA StoredNone ==
  ASSUME NEW t, \A i \in Id : ~Holds(t, i)
  PROVE  Stored(t) = None
BY DEF Stored, Holds

LEMMA StoredOne ==
  ASSUME NEW t, NEW i \in Id, t[i] # None, t[i].stamp \in Nat, \A j \in Id : j # i => ~Holds(t, j)
  PROVE  Stored(t) = t[i].cron
<1>1. CASE t[i].cron = None
  BY <1>1, StoredNone DEF Holds
<1>2. CASE t[i].cron # None
  <2>1. Holders(t) = {i}
    BY <1>2 DEF Holders, Holds
  <2>2. Holder(t) = i
    BY <2>1 DEF Holder
  <2> QED
    BY <2>1, <2>2 DEF Stored, Holder, Holders
<1> QED
  BY <1>1, <1>2

LEMMA StoredSame ==
  ASSUME NEW t, \A i \in Holders(t) : t[i].stamp \in Stamp, NEW u, Agree(t, u)
  PROVE  Stored(t) = Stored(u)
<1>1. PICK S : S = Holders(t)
  OBVIOUS
<1>2. S = Holders(u) /\ \A i \in S : t[i].stamp = u[i].stamp /\ t[i].cron = u[i].cron
  BY <1>1 DEF Agree, Holds, Holders
<1>3. CASE S = {}
  BY <1>1, <1>2, <1>3 DEF Stored, Holders
<1>4. CASE S # {}
  <2>1. \A i \in S : (\A j \in S : t[j].stamp <= t[i].stamp) <=> (\A j \in S : u[j].stamp <= u[i].stamp)
    BY <1>2
  <2>2. (CHOOSE i \in S : \A j \in S : t[j].stamp <= t[i].stamp)
        = (CHOOSE i \in S : \A j \in S : u[j].stamp <= u[i].stamp)
    BY <2>1
  <2>3. Holder(t) = Holder(u)
    BY <1>1, <1>2, <2>2 DEF Holder
  <2>4. Stored(t) = t[Holder(t)].cron /\ Holder(t) \in S
    BY <1>1, <1>4, StoredIn
  <2>5. Stored(u) = u[Holder(u)].cron
    BY <1>2, <1>4 DEF Stored, Holder, Holders
  <2> QED
    BY <1>2, <2>3, <2>4, <2>5
<1> QED
  BY <1>3, <1>4

-----------------------------------------------------------------------------
(* Steps that let the schedule alone.                                      *)

LEMMA TimerStays ==
  ASSUME LiveData, TimerInv, UNCHANGED timer, \A u : u = table' => Agree(table, u)
  PROVE  TimerInv'
<1>1. PICK t, u : t = table /\ u = table'
  OBVIOUS
<1>2. Agree(t, u) /\ \A i \in Holders(t) : t[i].stamp \in Stamp
  BY <1>1 DEF LiveData, GoodTable, GoodRow, Row, Holders
<1>3. Stored(table)' = Stored(table)
  BY <1>1, <1>2, StoredSame
<1>4. \A i \in Id : ~Holds(t, i) => ~Holds(u, i)
  BY <1>2 DEF Agree
<1>5. (\A i \in Id : ~Holds(table, i)) => (\A i \in Id : ~Holds(table, i))'
  BY <1>1, <1>4
<1> QED
  BY <1>3, <1>5 DEF TimerInv, timer

\* A save that undoes nothing keeps the schedule.
LEMMA SavedAgrees ==
  ASSUME None \notin Row, LiveData, NEW i, Known(i), NEW old, NEW new, Save(i, old, new), ~Lost',
         new \in Row, new.cron = old.cron, new.stamp = old.stamp
  PROVE  \A u : u = table' => Agree(table, u)
<1>1. table' = [table EXCEPT ![i] = new] /\ i \in Id
  BY DEF Save, Known
<1>2. table[i] = old /\ old # None
  BY DEF Save, Lost, Unless
<1>3. \A j \in Id : table'[j] = IF j = i THEN new ELSE table[j]
  BY <1>1 DEF LiveData, GoodTable
<1> QED
  BY <1>2, <1>3 DEF Agree, Holds

\* So does the removal of a row without one.
LEMMA ErasedAgrees ==
  ASSUME LiveData, NEW i, table' = [table EXCEPT ![i] = None], ~Holds(table, i)
  PROVE  \A u : u = table' => Agree(table, u)
<1>1. \A j \in Id : table'[j] = IF j = i THEN None ELSE table[j]
  BY DEF LiveData, GoodTable
<1> QED
  BY <1>1 DEF Agree, Holds

LEMMA InsertedAgrees ==
  ASSUME LiveData, NEW row, Insert(row), row.cron = None
  PROVE  \A u : u = table' => Agree(table, u)
<1>1. table' = [table EXCEPT ![next] = row] /\ next \in Nat
  BY DEF Insert, LiveData, GoodTable
<1>2. \A j \in Id : table'[j] = IF j = next THEN row ELSE table[j]
  BY <1>1 DEF LiveData, GoodTable
<1>3. \A j \in Id : j = next => table[j] = None
  BY <1>1 DEF LiveData, GoodTable
<1> QED
  BY <1>2, <1>3 DEF Agree, Holds

LEMMA JobsTimer ==
  ASSUME None \notin Row, DataInv, TimerInv, NEW s \in Stamp, MakeBackup(s), ~Lost'
  PROVE  TimerInv'
<1>1. UNCHANGED timer /\ LiveData /\ JobData(s)
  BY DEF DataInv, MakeBackup, JobRead, JobRun, DumpDatabase, Mix, Pack, JobSave, RotateList, RotateFile, RotateRow,
         JobUnchanged
<1>2. CASE UNCHANGED table
  BY <1>1, <1>2, TimerStays DEF Agree
<1>3. CASE JobRun(s)
  <2>1. PICK i, old, new : i = job[s].id /\ old = job[s].row /\ new = [old EXCEPT !.status = "running"]
    OBVIOUS
  <2>2. Save(i, old, new) /\ old \in Row /\ Known(i)
    BY <1>1, <1>3, <2>1 DEF JobRun, JobData, Making, GoodRow
  <2>3. new \in Row /\ new.cron = old.cron /\ new.stamp = old.stamp
    BY <2>1, <2>2 DEF Row, Status
  <2> QED
    BY <1>1, <2>2, <2>3, SavedAgrees, TimerStays
<1>4. CASE JobSave(s)
  <2>1. PICK i, new, old : i = job[s].id /\ new = job[s].row /\ old = [new EXCEPT !.status = "running", !.enc = FALSE]
    OBVIOUS
  <2>2. Save(i, old, new) /\ new \in Row /\ Known(i)
    BY <1>1, <1>4, <2>1 DEF JobSave, JobData, Making, GoodRow
  <2>3. new.cron = old.cron /\ new.stamp = old.stamp
    BY <2>1, <2>2 DEF Row, Status
  <2> QED
    BY <1>1, <2>2, <2>3, SavedAgrees, TimerStays
<1>5. CASE RotateRow(s)
  <2>1. PICK i : i = Head(job[s].list)[1]
    OBVIOUS
  <2>2. table' = [table EXCEPT ![i] = None] /\ ~Holds(table, i)
    BY <1>5, <2>1 DEF RotateRow, Erase, Lost, Unless, Holds
  <2> QED
    BY <1>1, <2>2, ErasedAgrees, TimerStays
<1> QED
  BY <1>2, <1>3, <1>4, <1>5 DEF MakeBackup, JobRead, DumpDatabase, Mix, Pack, RotateList, RotateFile

LEMMA CreateTimer ==
  ASSUME DataInv, TimerInv, CreateBackup
  PROVE  TimerInv'
<1>1. PICK row : row = New
  OBVIOUS
<1>2. Insert(row) /\ row.cron = None /\ UNCHANGED timer
  BY <1>1 DEF CreateBackup, New, Insert
<1> QED
  BY <1>2, InsertedAgrees, TimerStays DEF DataInv

LEMMA DeleteTimer ==
  ASSUME DataInv, TimerInv, DeleteBackup, ~Lost'
  PROVE  TimerInv'
<1>1. UNCHANGED timer /\ LiveData
  BY DEF DataInv, DeleteBackup, DeleteRead, DeleteFiles, DeleteRow, DeleteUnchanged
<1>2. CASE UNCHANGED table
  BY <1>1, <1>2, TimerStays DEF Agree
<1>3. CASE DeleteRow
  <2>1. PICK i : i = deleting.id
    OBVIOUS
  <2>2. table' = [table EXCEPT ![i] = None] /\ ~Holds(table, i)
    BY <1>3, <2>1 DEF DeleteRow, Lost, Unless, Holds
  <2> QED
    BY <1>1, <2>2, ErasedAgrees, TimerStays
<1> QED
  BY <1>2, <1>3 DEF DeleteBackup, DeleteRead, DeleteFiles

LEMMA RestoresTimer ==
  ASSUME None \notin Row, DataInv, TimerInv, RestoreBackup, ~Lost'
  PROVE  TimerInv'
<1>1. UNCHANGED timer /\ LiveData /\ \A r \in Restore : RestoreData(r)
  BY DEF DataInv, RestoreBackup, RestoreRead, RestoreMark, RestoreOpen, RestoreRename, RestoreCopy, RestoreVerify,
         RestoreFiles, RestoreSave, RestoreUnchanged
<1>2. CASE UNCHANGED table
  BY <1>1, <1>2, TimerStays DEF Agree
<1>3. ASSUME NEW r \in Restore, RestoreMark(r) PROVE TimerInv'
  <2>1. PICK i, old, new : i = restore[r].id /\ old = restore[r].row /\ new = [old EXCEPT !.status = "restoring"]
    OBVIOUS
  <2>2. Save(i, old, new) /\ old \in Row /\ Known(i)
    BY <1>1, <1>3, <2>1 DEF RestoreMark, RestoreData, Pc, GoodRow
  <2>3. new \in Row /\ new.cron = old.cron /\ new.stamp = old.stamp
    BY <2>1, <2>2 DEF Row, Status
  <2> QED
    BY <1>1, <2>2, <2>3, SavedAgrees, TimerStays
<1>4. ASSUME NEW r \in Restore, RestoreSave(r) PROVE TimerInv'
  <2>1. PICK i, new, old : i = restore[r].id /\ new = restore[r].row /\ old = [new EXCEPT !.status = "restoring"]
    OBVIOUS
  <2>2. Save(i, old, new) /\ new \in Row /\ Known(i)
    BY <1>1, <1>4, <2>1 DEF RestoreSave, RestoreData, Pc, GoodRow
  <2>3. new.cron = old.cron /\ new.stamp = old.stamp
    BY <2>1, <2>2 DEF Row, Status
  <2> QED
    BY <1>1, <2>2, <2>3, SavedAgrees, TimerStays
<1> QED
  BY <1>2, <1>3, <1>4 DEF RestoreBackup, RestoreRead, RestoreOpen, RestoreRename, RestoreCopy, RestoreVerify, RestoreFiles

-----------------------------------------------------------------------------
(* A change of the schedule, and a restart.                                *)

LEMMA SetScheduleTimer ==
  ASSUME None \notin Row, DataInv, DataInv', TimerInv, SetSchedule, ~Lost'
  PROVE  TimerInv'
<1>1. LiveData /\ SchedData /\ LiveData' /\ UNCHANGED ticking /\ None \notin Accepted
  <2>1. UNCHANGED ticking
    BY DEF SetSchedule, UpdateSchedule, SchedClear, SchedLatest, SchedSave, SchedEntry, SchedUnchanged
  <2> QED
    BY <2>1, BackupsAssumption DEF DataInv
<1>2. ASSUME NEW c, UpdateSchedule(c) PROVE TimerInv'
  <2>1. sched'.pc = "clear"
    BY <1>2 DEF UpdateSchedule, IdleSched
  <2> QED
    BY <1>1, <2>1 DEF TimerInv
<1>3. CASE SchedClear
  <2>1. /\ sched' = [sched EXCEPT !.pc = "latest"]
        /\ table' = [i \in Id |-> IF i \in Rows THEN [table[i] EXCEPT !.cron = None] ELSE None]
    BY <1>3 DEF SchedClear
  <2>2. sched'.pc = "latest"
    BY <1>1, <2>1 DEF SchedData
  <2>3. \A i \in Id : ~Holds(table', i)
    <3> SUFFICES ASSUME NEW i \in Id, i \in Rows PROVE [table[i] EXCEPT !.cron = None].cron = None
      BY <2>1 DEF Holds
    <3>1. PICK row : row = table[i]
      OBVIOUS
    <3>2. row \in Row
      BY <1>1, <3>1 DEF Rows, LiveData, GoodTable, GoodRow
    <3> QED
      BY <3>1, <3>2 DEF Row
  <2> QED
    BY <1>1, <2>2, <2>3 DEF TimerInv, Holds
<1>4. CASE SchedLatest
  <2>1. CASE Rows = {}
    <3>1. Insert([New EXCEPT !.cron = sched.cron]) /\ sched' = [sched EXCEPT !.pc = "entry"] /\ sched.pc = "latest"
      BY <1>4, <2>1 DEF SchedLatest
    <3>2. sched'.pc = "entry" /\ sched'.cron = sched.cron
      BY <1>1, <3>1 DEF SchedData
    <3>3. PICK row, i : row = [New EXCEPT !.cron = sched.cron] /\ i = next
      OBVIOUS
    <3>4. i \in Id /\ row.cron = sched.cron /\ row \in Row
      <4>1. stamps < MaxBackups /\ sched.cron \in Crons \cup {None}
        BY <1>1, <3>1 DEF Insert, SchedData
      <4>2. PICK new : new = New
        OBVIOUS
      <4>3. new \in Row /\ row = [new EXCEPT !.cron = sched.cron]
        BY <1>1, <3>3, <4>1, <4>2, NewIs DEF LiveData
      <4>4. i \in Id
        BY <1>1, <3>3, <4>1, BackupsAssumption DEF LiveData, GoodTable, Id
      <4> QED
        BY <4>1, <4>3, <4>4 DEF Row
    <3>5. \A j \in Id : table'[j] = IF j = i THEN row ELSE None
      BY <1>1, <2>1, <3>1, <3>3 DEF Insert, Rows, LiveData, GoodTable
    <3>6. PICK t : t = table'
      OBVIOUS
    <3>7. t[i] # None /\ \A j \in Id : j # i => ~Holds(t, j)
      BY <3>4, <3>5, <3>6 DEF Holds
    <3>8. Stored(t) = t[i].cron
      BY <3>4, <3>5, <3>6, <3>7, Ids, StoredOne DEF Row
    <3>9. Stored(table)' = sched'.cron
      BY <3>2, <3>4, <3>5, <3>6, <3>8
    <3> QED
      BY <1>1, <3>2, <3>9 DEF TimerInv
  <2>2. CASE Rows # {}
    <3>1. UNCHANGED table /\ sched.pc = "latest" /\ sched' = [sched EXCEPT !.pc = "save", !.id = Latest(Rows), !.row = table[Latest(Rows)]]
      BY <1>4, <2>2 DEF SchedLatest
    <3>2. sched'.pc = "save"
      BY <1>1, <3>1 DEF SchedData
    <3> QED
      BY <1>1, <3>1, <3>2 DEF TimerInv, Holds
  <2> QED
    BY <2>1, <2>2
<1>5. CASE SchedSave
  <2>1. PICK i, old, new : i = sched.id /\ old = sched.row /\ new = [old EXCEPT !.cron = sched.cron]
    OBVIOUS
  <2>2. /\ sched' = [sched EXCEPT !.pc = "entry"] /\ sched.pc = "save" /\ Save(i, old, new) /\ old \in Row /\ i \in Id
        /\ sched.cron \in Crons \cup {None}
    BY <1>1, <1>5, <2>1 DEF SchedSave, SchedData, Known, GoodRow
  <2>3. sched'.pc = "entry" /\ sched'.cron = sched.cron
    BY <1>1, <2>2 DEF SchedData
  <2>4. new \in Row /\ new.cron = sched.cron
    BY <2>1, <2>2 DEF Row
  <2>5. \A j \in Id : table'[j] = IF j = i THEN new ELSE table[j]
    BY <1>1, <2>2 DEF Save, LiveData, GoodTable
  <2>6. \A j \in Id : ~Holds(table, j)
    BY <2>2 DEF TimerInv
  <2>7. PICK t : t = table'
    OBVIOUS
  <2>8. t[i] = new /\ t[i] # None /\ \A j \in Id : j # i => ~Holds(t, j)
    BY <2>2, <2>4, <2>5, <2>6, <2>7 DEF Holds
  <2>9. Stored(t) = t[i].cron
    BY <2>2, <2>4, <2>8, Ids, StoredOne DEF Row
  <2>10. Stored(table)' = sched'.cron
    BY <2>3, <2>4, <2>7, <2>8, <2>9
  <2> QED
    BY <1>1, <2>3, <2>10 DEF TimerInv
<1>6. CASE SchedEntry
  <2>1. /\ UNCHANGED table /\ sched' = IdleSched /\ sched.pc = "entry"
        /\ entry' = IF sched.cron \in Accepted THEN sched.cron ELSE None
    BY <1>6 DEF SchedEntry
  <2>2. sched.cron \in Accepted \cup {None}
    BY <1>1, <1>6 DEF SchedData, Rejected, SchedEntry, Lost, Unless
  <2> QED
    BY <1>1, <2>1, <2>2, IdleIs DEF TimerInv
<1> QED
  BY <1>2, <1>3, <1>4, <1>5, <1>6 DEF SetSchedule

LEMMA RestartTimer ==
  ASSUME DataInv', NEW old \in aged..stamps, Restart(old), ~Lost'
  PROVE  TimerInv'
<1>1. PICK t : t = table'
  OBVIOUS
<1>2. /\ sched' = IdleSched /\ entry' = (IF Stored(t) \in Accepted THEN Stored(t) ELSE None)
      /\ ticking' = (Stored(t) \in Accepted \cup {None})
  BY <1>1 DEF Restart
<1>3. Stored(t) \in Accepted \cup {None}
  <2>1. t \in [Id -> Row \cup {None}] /\ \A i \in Id : t[i] # None => t[i].stamp \in Stamp /\ t[i].cron \in Accepted \cup {None}
    BY <1>1 DEF DataInv, LiveData, GoodTable, GoodRow, Rejected, Lost, Unless, Row
  <2>2. CASE Holders(t) # {}
    <3>1. Holder(t) \in Holders(t) /\ Stored(t) = t[Holder(t)].cron
      BY <2>1, <2>2, StoredIn DEF Holders
    <3> QED
      BY <2>1, <3>1 DEF Holders
  <2>3. CASE Holders(t) = {}
    BY <2>3, StoredNone DEF Holders, Holds
  <2> QED
    BY <2>2, <2>3
<1> QED
  BY <1>1, <1>2, <1>3, IdleIs DEF TimerInv

LEMMA NextTimer ==
  ASSUME Parameters, None \notin Row, DataInv, Lost \/ TimerInv, [Next]_vars
  PROVE  (Lost \/ TimerInv)'
<1> SUFFICES ASSUME ~Lost' PROVE TimerInv'
  OBVIOUS
<1>1. TimerInv
  BY ExcuseGrows DEF Lost, Unless
<1>2. DataInv'
  BY NextData
<1>3. CASE UNCHANGED vars
  BY <1>1, <1>3 DEF vars, timer, TimerInv, Holds
<1> QED
  BY <1>1, <1>2, <1>3, CreateTimer, JobsTimer, DeleteTimer, RestoresTimer, SetScheduleTimer, RestartTimer DEF Next

LEMMA InitTimer == Init => TimerInv
BY IdleIs, StoredNone DEF Init, TimerInv, Holds

\* The stored schedule is the one the scheduler runs, for any number of
\* changes, backups and restarts, unless it was lost in one of the known ways
\* (UpdateSchedule, setScheduleInDB, Initialize and every save of a whole row).
THEOREM StoredScheduleIsRun ==
  ASSUME Parameters, None \notin Row
  PROVE  Spec => []ScheduleIsCurrent
<1>1. Init => DataInv /\ (Lost \/ TimerInv)
  BY InitData, InitTimer
<1>2. DataInv /\ (Lost \/ TimerInv) /\ [Next]_vars => DataInv' /\ (Lost \/ TimerInv)'
  BY NextData, NextTimer
<1>3. DataInv /\ (Lost \/ TimerInv) => ScheduleIsCurrent
  BY IdleIs DEF DataInv, SchedData, TimerInv, Lost, ScheduleIsCurrent, GetSchedule
<1> QED
  BY <1>1, <1>2, <1>3, PTL DEF Spec

-----------------------------------------------------------------------------
(* Who works on a row.                                                     *)

\* One of the known ways of leaving a row that nobody works on.
Dropped == Unless({"orphaned", "overwritten", "resurrected", "placeholder"})

Settled(i) == table[i].status \in {"completed", "failed"}

InHand(i) == \/ \E s \in Stamp : job[s].pc \in Making /\ job[s].id = i
             \/ \E r \in Restore : Pc(r) # "idle" /\ restore[r].id = i

WorkInv == \A i \in Id : table[i] # None => Settled(i) \/ InHand(i)

\* A row is as it was, or is settled or in hand now.
LEMMA WorkStays ==
  ASSUME WorkInv,
         \A i \in Id : table'[i] # None =>
           \/ table[i] # None /\ table'[i].status = table[i].status /\ (InHand(i) => InHand(i)')
           \/ Settled(i)' \/ InHand(i)'
  PROVE  WorkInv'
BY DEF WorkInv, Settled

LEMMA CreateWork ==
  ASSUME DataInv, WorkInv, CreateBackup
  PROVE  WorkInv'
<1>1. /\ stamps < MaxBackups /\ table' = [table EXCEPT ![next] = New] /\ restore' = restore
      /\ job' = [job EXCEPT ![stamps + 1] = [Idle EXCEPT !.pc = "read", !.id = next]]
  BY DEF CreateBackup, Insert
<1>2. PICK n \in Stamp : n = stamps + 1
  BY <1>1, BackupsAssumption DEF DataInv, LiveData, Stamp
<1>3. job[n].pc = "idle"
  BY <1>2, BackupsAssumption DEF DataInv, LiveData, JobData
<1>4. /\ job'[n].pc = "read" /\ job'[n].id = next
      /\ \A q \in Stamp \ {n} : job'[q] = job[q]
  BY <1>1, <1>2 DEF DataInv, Idle
<1>5. \A i \in Id : InHand(i) => InHand(i)'
  BY <1>1, <1>3, <1>4 DEF InHand, Making, Pc
<1>6. \A i \in Id : i = next => InHand(i)'
  BY <1>4 DEF InHand, Making
<1>7. \A i \in Id : i # next => table'[i] = table[i]
  BY <1>1 DEF DataInv, LiveData, GoodTable
<1> QED
  BY <1>5, <1>6, <1>7, WorkStays

LEMMA MakeWork ==
  ASSUME DataInv, WorkInv, NEW s \in Stamp, MakeBackup(s)
  PROVE  WorkInv'
<1>1. /\ JobData(s) /\ DOMAIN job = Stamp /\ UNCHANGED restore /\ table \in [Id -> Row \cup {None}]
      /\ \A q \in Stamp \ {s} : job'[q] = job[q]
  BY DEF DataInv, LiveData, GoodTable, MakeBackup, JobRead, JobRun, DumpDatabase, Mix, Pack, JobSave, RotateList,
         RotateFile, RotateRow, JobUnchanged
<1>2. ASSUME job[s].pc \notin Making \/ (job'[s].id = job[s].id /\ job'[s].pc \in Making)
      PROVE  \A i \in Id : InHand(i) => InHand(i)'
  BY <1>1, <1>2 DEF InHand, Pc
<1>3. \A i \in Id : i # job[s].id => (InHand(i) => InHand(i)')
  BY <1>1 DEF InHand, Pc
<1>4. CASE JobRead(s)
  <2>1. job[s].pc = "read" /\ UNCHANGED table
    BY <1>4 DEF JobRead
  <2>2. CASE table[job[s].id] = None
    BY <1>3, <2>1, <2>2, WorkStays
  <2>3. CASE table[job[s].id] # None
    <3>1. job'[s].id = job[s].id /\ job'[s].pc = "run"
      BY <1>1, <1>4, <2>3 DEF JobRead
    <3> QED
      BY <1>2, <2>1, <3>1, WorkStays DEF Making
  <2> QED
    BY <2>2, <2>3
<1>5. CASE JobRun(s)
  <2>1. /\ job'[s].pc = "dump" /\ job'[s].id = job[s].id
        /\ table' = [table EXCEPT ![job[s].id] = [job[s].row EXCEPT !.status = "running"]]
    BY <1>1, <1>5 DEF JobRun, Save
  <2>2. \A i \in Id : i = job[s].id => InHand(i)'
    BY <2>1 DEF InHand, Making
  <2>3. \A i \in Id : i # job[s].id => table'[i] = table[i]
    BY <1>1, <2>1
  <2> QED
    BY <1>3, <2>2, <2>3, WorkStays
<1>6. CASE DumpDatabase(s) \/ Mix(s) \/ Pack(s)
  <2>1. UNCHANGED table /\ job'[s].id = job[s].id /\ job'[s].pc \in {"pack", "save"}
    <3>1. ASSUME NEW copy, job' = [job EXCEPT ![s].pc = "pack", ![s].copy = copy]
          PROVE  job'[s].id = job[s].id /\ job'[s].pc = "pack"
      BY <1>1, <3>1
    <3>2. ASSUME job' = [job EXCEPT ![s].pc = "save", ![s].row.status = "failed"]
          PROVE  job'[s].id = job[s].id /\ job'[s].pc = "save"
      BY <1>1, <3>2
    <3>3. ASSUME NEW ok, \/ job' = [job EXCEPT ![s].pc = "save", ![s].copy = None, ![s].row.enc = TRUE, ![s].row.status = ok]
                         \/ job' = [job EXCEPT ![s].pc = "save", ![s].copy = None, ![s].row.status = "failed"]
          PROVE  job'[s].id = job[s].id /\ job'[s].pc = "save"
      <4>1. CASE job' = [job EXCEPT ![s].pc = "save", ![s].copy = None, ![s].row.enc = TRUE, ![s].row.status = ok]
        BY <1>1, <4>1
      <4>2. CASE job' = [job EXCEPT ![s].pc = "save", ![s].copy = None, ![s].row.status = "failed"]
        BY <1>1, <4>2
      <4> QED
        BY <3>3, <4>1, <4>2
    <3>4. ASSUME job' = [job EXCEPT ![s].copy = Broken], job[s].pc = "pack"
          PROVE  job'[s].id = job[s].id /\ job'[s].pc = "pack"
      BY <1>1, <3>4
    <3> QED
      BY <1>6, <3>1, <3>2, <3>3, <3>4 DEF DumpDatabase, Mix, Pack
  <2> QED
    BY <1>2, <2>1, WorkStays DEF Making
<1>7. CASE JobSave(s)
  <2>1. /\ job[s].row.status \in {"completed", "failed"}
        /\ table' = [table EXCEPT ![job[s].id] = job[s].row]
    BY <1>1, <1>7 DEF JobSave, JobData, Save
  <2>2. \A i \in Id : i = job[s].id => Settled(i)'
    BY <1>1, <2>1 DEF Settled
  <2>3. \A i \in Id : i # job[s].id => table'[i] = table[i]
    BY <1>1, <2>1
  <2> QED
    BY <1>3, <2>2, <2>3, WorkStays
<1>8. CASE RotateList(s) \/ RotateFile(s) \/ RotateRow(s)
  <2>1. job[s].pc \notin Making
    BY <1>8 DEF RotateList, RotateFile, RotateRow, Making
  <2>2. UNCHANGED table \/ \E i : table' = [table EXCEPT ![i] = None]
    BY <1>8 DEF RotateList, RotateFile, RotateRow, Erase
  <2>3. \A i \in Id : table'[i] # None => table'[i] = table[i]
    BY <1>1, <2>2
  <2> QED
    BY <1>2, <2>1, <2>3, WorkStays
<1> QED
  BY <1>4, <1>5, <1>6, <1>7, <1>8 DEF MakeBackup

LEMMA DeleteWork ==
  ASSUME DataInv, WorkInv, DeleteBackup
  PROVE  WorkInv'
<1>1. UNCHANGED <<job, restore>> /\ (UNCHANGED table \/ table' = [table EXCEPT ![deleting.id] = None])
  BY DEF DeleteBackup, DeleteRead, DeleteFiles, DeleteRow, DeleteUnchanged
<1>2. \A i \in Id : table'[i] # None => table'[i] = table[i]
  BY <1>1 DEF DataInv, LiveData, GoodTable
<1>3. \A i \in Id : InHand(i) => InHand(i)'
  BY <1>1 DEF InHand, Pc
<1> QED
  BY <1>2, <1>3, WorkStays

LEMMA RestoreWork ==
  ASSUME IInv, DataInv, WorkInv, RestoreBackup
  PROVE  WorkInv'
<1>1. /\ UNCHANGED job /\ DOMAIN restore = Restore /\ table \in [Id -> Row \cup {None}]
      /\ \A r \in Restore : RestoreData(r)
  BY DEF DataInv, LiveData, GoodTable, RestoreBackup, RestoreRead, RestoreMark, RestoreOpen, RestoreRename, RestoreCopy,
         RestoreVerify, RestoreFiles, RestoreSave, RestoreUnchanged
<1>2. ASSUME NEW i \in Id, RestoreRead(i) PROVE WorkInv'
  <2>1. UNCHANGED table /\ \A q \in Restore : q # left => restore'[q] = restore[q]
    BY <1>1, <1>2 DEF RestoreRead
  <2>2. \A q \in Restore : q = left => Pc(q) = "idle"
    BY DEF IInv, Shape, SafeInv, FreshInv, Restore
  <2>3. \A j \in Id : InHand(j) => InHand(j)'
    BY <1>1, <2>1, <2>2 DEF InHand, Pc
  <2> QED
    BY <2>1, <2>3, WorkStays
<1>3. ASSUME NEW r \in Restore, \A q \in Restore \ {r} : restore'[q] = restore[q],
             Pc(r)' # "idle", restore'[r].id = restore[r].id
      PROVE  \A j \in Id : InHand(j) => InHand(j)'
  BY <1>1, <1>3 DEF InHand, Pc
<1>4. ASSUME NEW r \in Restore, RestoreMark(r) PROVE WorkInv'
  <2>1. /\ restore'[r].pc = "open" /\ restore'[r].id = restore[r].id
        /\ \A q \in Restore \ {r} : restore'[q] = restore[q]
        /\ table' = [table EXCEPT ![restore[r].id] = [restore[r].row EXCEPT !.status = "restoring"]]
    BY <1>1, <1>4 DEF RestoreMark, Save
  <2>2. \A i \in Id : i = restore[r].id => InHand(i)'
    BY <2>1 DEF InHand, Pc
  <2>3. \A i \in Id : i # restore[r].id => table'[i] = table[i]
    BY <1>1, <2>1
  <2>4. \A j \in Id : InHand(j) => InHand(j)'
    BY <1>3, <2>1 DEF Pc
  <2> QED
    BY <2>2, <2>3, <2>4, WorkStays
<1>5. ASSUME NEW r \in Restore, RestoreOpen(r) \/ RestoreRename(r) \/ RestoreCopy(r) \/ RestoreVerify(r) \/ RestoreFiles(r)
      PROVE  WorkInv'
  <2>1. UNCHANGED table
    BY <1>5 DEF RestoreOpen, RestoreRename, RestoreCopy, RestoreVerify, RestoreFiles
  <2>2. /\ restore'[r].pc \in {"rename", "copy", "verify", "files", "save"} /\ restore'[r].id = restore[r].id
        /\ \A q \in Restore \ {r} : restore'[q] = restore[q]
    <3>1. CASE Fails(r)
      BY <1>1, <3>1 DEF Fails
    <3>2. ASSUME NEW pc \in {"rename", "copy", "verify", "files", "save"},
                 \/ restore' = [restore EXCEPT ![r].pc = pc]
                 \/ \E copy : restore' = [restore EXCEPT ![r].pc = pc, ![r].copy = copy]
                 \/ \E status : restore' = [restore EXCEPT ![r].pc = pc, ![r].row.status = status]
          PROVE  /\ restore'[r].pc = pc /\ restore'[r].id = restore[r].id
                 /\ \A q \in Restore \ {r} : restore'[q] = restore[q]
      <4>1. CASE restore' = [restore EXCEPT ![r].pc = pc]
        BY <1>1, <4>1
      <4>2. CASE \E copy : restore' = [restore EXCEPT ![r].pc = pc, ![r].copy = copy]
        BY <1>1, <4>2
      <4>3. CASE \E status : restore' = [restore EXCEPT ![r].pc = pc, ![r].row.status = status]
        BY <1>1, <4>3
      <4> QED
        BY <3>2, <4>1, <4>2, <4>3
    <3>3. CASE RestoreOpen(r)
      BY <3>1, <3>2, <3>3 DEF RestoreOpen
    <3>4. CASE RestoreRename(r)
      BY <3>2, <3>4 DEF RestoreRename
    <3>5. CASE RestoreCopy(r)
      BY <3>1, <3>2, <3>5 DEF RestoreCopy
    <3>6. CASE RestoreVerify(r)
      BY <3>1, <3>2, <3>6 DEF RestoreVerify
    <3>7. CASE RestoreFiles(r)
      BY <3>1, <3>2, <3>7 DEF RestoreFiles
    <3> QED
      BY <1>5, <3>3, <3>4, <3>5, <3>6, <3>7
  <2> QED
    BY <1>3, <2>1, <2>2, WorkStays DEF Pc
<1>6. ASSUME NEW r \in Restore, RestoreSave(r) PROVE WorkInv'
  <2>1. /\ \A q \in Restore \ {r} : restore'[q] = restore[q]
        /\ table' = [table EXCEPT ![restore[r].id] = restore[r].row]
    BY <1>1, <1>6 DEF RestoreSave, Save
  <2>2. restore[r].row.status \in {"completed", "failed"}
    BY <1>1, <1>6 DEF RestoreSave, RestoreData, Pc
  <2>3. \A i \in Id : i = restore[r].id => Settled(i)'
    BY <1>1, <2>1, <2>2 DEF Settled
  <2>4. \A i \in Id : i # restore[r].id => table'[i] = table[i] /\ (InHand(i) => InHand(i)')
    BY <1>1, <2>1 DEF InHand, Pc
  <2> QED
    BY <2>3, <2>4, WorkStays
<1> QED
  BY <1>2, <1>4, <1>5, <1>6 DEF RestoreBackup

LEMMA ScheduleWork ==
  ASSUME DataInv, WorkInv, SetSchedule, ~Dropped'
  PROVE  WorkInv'
<1>1. UNCHANGED <<job, restore>> /\ table \in [Id -> Row \cup {None}] /\ SchedData
  BY DEF DataInv, LiveData, GoodTable, SetSchedule, UpdateSchedule, SchedClear, SchedLatest, SchedSave, SchedEntry,
         SchedUnchanged
<1>2. \A i \in Id : InHand(i) => InHand(i)'
  BY <1>1 DEF InHand, Pc
<1>3. CASE UNCHANGED table
  BY <1>2, <1>3, WorkStays
<1>4. CASE SchedClear
  <2>1. ASSUME NEW i \in Id, table'[i] # None PROVE table[i] # None /\ table'[i].status = table[i].status
    <3>1. PICK row : row = table[i]
      OBVIOUS
    <3>2. row # None /\ table'[i] = [row EXCEPT !.cron = None]
      BY <1>4, <2>1, <3>1 DEF SchedClear, Rows
    <3>3. row \in Row
      BY <1>1, <3>1, <3>2
    <3> QED
      BY <3>1, <3>2, <3>3 DEF Row
  <2> QED
    BY <1>2, <2>1, WorkStays
<1>5. CASE SchedSave
  <2>1. PICK i, old, new : i = sched.id /\ old = sched.row /\ new = [old EXCEPT !.cron = sched.cron]
    OBVIOUS
  <2>2. old \in Row /\ Save(i, old, new)
    BY <1>1, <1>5, <2>1 DEF SchedSave, SchedData, GoodRow
  <2>3. table[i] = old /\ table[i] # None /\ table' = [table EXCEPT ![i] = new]
    BY <2>2 DEF Save, Dropped, Unless
  <2>4. new.status = old.status
    BY <2>1, <2>2 DEF Row
  <2>5. \A j \in Id : table'[j] = IF j = i THEN new ELSE table[j]
    BY <1>1, <2>3
  <2> QED
    BY <1>2, <2>3, <2>4, <2>5, WorkStays
<1> QED
  BY <1>3, <1>4, <1>5 DEF SetSchedule, UpdateSchedule, SchedLatest, SchedEntry, Dropped, Unless

LEMMA RestartWork ==
  ASSUME DataInv', NEW old \in aged..stamps, Restart(old), ~Dropped'
  PROVE  WorkInv'
<1>1. \A i \in Id : table'[i] # None => table'[i].status \in Status
  BY DEF DataInv, LiveData, GoodTable, GoodRow, Row
<1>2. PICK t : t = table'
  OBVIOUS
<1>3. Unfinished(t) = {} /\ {i \in Id : t[i] # None /\ t[i].status = "restoring"} = {}
  BY <1>2 DEF Restart, Dropped, Unless
<1> QED
  BY <1>1, <1>2, <1>3 DEF Unfinished, Status, WorkInv, Settled

LEMMA NextWork ==
  ASSUME Parameters, IInv, DataInv, Dropped \/ WorkInv, [Next]_vars
  PROVE  (Dropped \/ WorkInv)'
<1> SUFFICES ASSUME ~Dropped' PROVE WorkInv'
  OBVIOUS
<1>1. WorkInv
  BY ExcuseGrows DEF Dropped, Unless
<1>2. DataInv'
  BY NextData
<1>3. CASE UNCHANGED vars
  BY <1>1, <1>3 DEF vars, WorkInv, Settled, InHand, Pc
<1> QED
  BY <1>1, <1>2, <1>3, CreateWork, MakeWork, DeleteWork, RestoreWork, ScheduleWork, RestartWork DEF Next

\* A row that says that its backup is being made or restored has somebody at
\* work on it (CreateBackup, performBackup, RestoreBackup and the clean-up of
\* Initialize), unless it was dropped in one of the known ways.
THEOREM RowsInHand ==
  ASSUME Parameters
  PROVE  Spec => []SomebodyWorks
<1>1. Init => IInv /\ DataInv /\ (Dropped \/ WorkInv)
  <2>1. Init => WorkInv
    BY DEF Init, WorkInv
  <2> QED
    BY <2>1, InitInv, InitData
<1>2. IInv /\ DataInv /\ (Dropped \/ WorkInv) /\ [Next]_vars => IInv' /\ DataInv' /\ (Dropped \/ WorkInv)'
  BY NextInv, NextData, NextWork
<1>3. Dropped \/ WorkInv => SomebodyWorks
  BY DEF WorkInv, Settled, InHand, Making, Dropped, SomebodyWorks, Rows
<1> QED
  BY <1>1, <1>2, <1>3, PTL DEF Spec

-----------------------------------------------------------------------------
(* Rotation.                                                               *)

LEMMA Counting ==
  ASSUME NEW S, NEW T, S \subseteq T, T \subseteq Id
  PROVE  IsFiniteSet(S) /\ Cardinality(S) \in Nat /\ Cardinality(S) <= Cardinality(T)
<1>1. IsFiniteSet(Id)
  BY BackupsAssumption, FS_Interval DEF Id
<1>2. IsFiniteSet(T)
  BY <1>1, FS_Subset
<1> QED
  BY <1>2, FS_Subset, FS_CardinalityType

\* At most K elements of a set have fewer than K greater ones.
LEMMA FewBehind ==
  ASSUME NEW S, S \subseteq Id, NEW K \in Nat, NEW T, T = {i \in S : Cardinality({j \in S : j > i}) < K}
  PROVE  Cardinality(T) <= K
<1>1. \A i \in S : i \in Nat
  BY Ids
<1>2. CASE T = {}
  <2>1. Cardinality(T) = 0
    BY <1>2, FS_EmptySet
  <2> QED
    BY <2>1
<1>3. CASE T # {}
  <2>1. PICK m \in T : \A i \in T : m <= i
    BY <1>1, <1>3, Least
  <2>2. PICK U : U = {j \in S : j > m}
    OBVIOUS
  <2>3. T \ {m} \subseteq U
    <3>1. ASSUME NEW i \in T, i # m PROVE i \in S /\ i > m
      <4>1. i \in Nat /\ m \in Nat /\ m <= i
        BY <1>1, <2>1
      <4> QED
        BY <3>1, <4>1
    <3> QED
      BY <2>2, <3>1
  <2>4. Cardinality(U) < K /\ Cardinality(T \ {m}) <= Cardinality(U)
    BY <2>1, <2>2, <2>3, Counting
  <2>5. IsFiniteSet(T) /\ Cardinality(T) \in Nat /\ Cardinality(U) \in Nat
    BY <2>2, Counting
  <2>6. Cardinality(T \ {m}) = Cardinality(T) - 1
    BY <2>1, <2>5, FS_RemoveElement
  <2> QED
    BY <2>4, <2>5, <2>6
<1> QED
  BY <1>2, <1>3

\* The completed backups newer than backup i that the table still has.
After(i) == {j \in Id : table[j] # None /\ j \in done /\ j > i}

Backed(i) == Cardinality(After(i)) >= Keep

\* An administrator deleted a backup, or an older table came back.
Thinned == Unless({"deleted", "restored"})

Cutting(s) == job[s].pc \in {"file", "row"}

\* What is gone, and what is to go, has as many newer ones.
BackedInv ==
  /\ \A i \in done : table[i] # None \/ Backed(i)
  /\ \A s \in Stamp : Cutting(s) => \A e \in job[s].list : Backed(e[1])

LEMMA BackedGrows ==
  ASSUME NEW i, NEW k, Backed(k), After(k) \subseteq After(i)'
  PROVE  Backed(i)'
<1>1. PICK S, T : S = After(k) /\ T = After(i)'
  OBVIOUS
<1>2. S \subseteq T /\ T \subseteq Id
  BY <1>1 DEF After
<1>3. Cardinality(S) \in Nat /\ Cardinality(T) \in Nat /\ Cardinality(S) <= Cardinality(T)
  BY <1>2, Counting
<1>4. Keep \in Nat /\ Cardinality(S) >= Keep
  BY <1>1, BackupsAssumption DEF Backed
<1>5. Cardinality(T) >= Keep
  BY <1>3, <1>4
<1> QED
  BY <1>1, <1>5 DEF Backed

LEMMA BackedStays ==
  ASSUME BackedInv, done \subseteq done', \A j \in Id : table[j] # None => table'[j] # None,
         \A j \in done' : j \in done \/ table'[j] # None, done \subseteq Id,
         \A s \in Stamp : Cutting(s)' =>
           \/ Cutting(s) /\ job'[s].list \subseteq job[s].list
           \/ \A e \in job'[s].list : Backed(e[1])'
  PROVE  BackedInv'
<1>1. \A i : After(i) \subseteq After(i)'
  BY DEF After
<1>2. \A i : Backed(i) => Backed(i)'
  BY <1>1, BackedGrows
<1> QED
  BY <1>2 DEF BackedInv

\* A save of a row, or a new one.
LEMMA RowsStay ==
  ASSUME Copies, TableInv, NEW i, NEW row \in Row, table' = [table EXCEPT ![i] = row]
  PROVE  \A j \in Id : (table[j] # None => table'[j] # None) /\ (j = i => table'[j] # None)
BY DEF Copies, TableInv

LEMMA CreateBacked ==
  ASSUME Copies, TracksInv, BackedInv, CreateBackup
  PROVE  BackedInv'
<1> USE DEF TracksInv
<1>1. /\ stamps < MaxBackups /\ table' = [table EXCEPT ![next] = New] /\ done' = done
      /\ job' = [job EXCEPT ![stamps + 1] = [Idle EXCEPT !.pc = "read", !.id = next]]
  BY DEF CreateBackup, Insert
<1>2. PICK n, new : n = stamps + 1 /\ new = [Idle EXCEPT !.pc = "read", !.id = next]
  OBVIOUS
<1>3. new.pc = "read"
  BY <1>2 DEF Idle
<1>4. job' = [job EXCEPT ![n] = new]
  BY <1>1, <1>2
<1>5. \A s \in Stamp : Cutting(s)' => Cutting(s) /\ job'[s] = job[s]
  BY <1>3, <1>4 DEF JobInv, Cutting
<1>6. New \in Row
  BY <1>1, NewIs DEF TableInv
<1> QED
  BY <1>1, <1>5, <1>6, Ids, RowsStay, BackedStays DEF TableInv

LEMMA ListBacked ==
  ASSUME TracksInv, NEW s \in Stamp, RotateList(s), Cutting(s)'
  PROVE  \A e \in job'[s].list : Backed(e[1])'
<1> USE DEF TracksInv
<1>1. job'[s].list = {<<i, table[i]>> : i \in Beyond}
  <2>1. job' = [job EXCEPT ![s] = Idle] => ~Cutting(s)'
    BY DEF JobInv, Cutting, Idle
  <2>2. job' = [job EXCEPT ![s] = [@ EXCEPT !.pc = "file", !.row = None, !.list = {<<i, table[i]>> : i \in Beyond}]]
    BY <2>1 DEF RotateList
  <2>3. s <= stamps /\ job[s].id = s
    BY DEF RotateList, JobInv, JobOk
  <2> QED
    BY <2>2 DEF JobInv
<1>2. ASSUME NEW i \in Beyond PROVE Backed(i)'
  <2>1. PICK S, T : S = Newer(i) \cap Having("completed") /\ T = After(i)
    OBVIOUS
  <2>2. i \in Id /\ table[i] # None /\ table[i].stamp = i /\ Cardinality(S) >= Keep
    BY <2>1 DEF Beyond, Having, Rows, TableInv, RowOk
  <2>3. S \subseteq T /\ T \subseteq Id
    BY <2>1, <2>2 DEF After, Newer, Having, Rows, TableInv, RowOk
  <2>4. Cardinality(S) \in Nat /\ Cardinality(T) \in Nat /\ Cardinality(S) <= Cardinality(T)
    BY <2>3, Counting
  <2>5. Keep \in Nat
    BY BackupsAssumption
  <2>6. Cardinality(T) >= Keep
    BY <2>2, <2>4, <2>5
  <2>7. UNCHANGED <<table, done>>
    BY DEF RotateList
  <2> QED
    BY <2>1, <2>6, <2>7 DEF Backed, After
<1> QED
  BY <1>1, <1>2

\* The row of the newest that is to go, and of those after it, goes last.
LEMMA RowBacked ==
  ASSUME TracksInv, BackedInv, NEW s \in Stamp, RotateRow(s)
  PROVE  BackedInv'
<1> USE DEF TracksInv
<1>1. PICK list : list = job[s].list
  OBVIOUS
<1>2. /\ job[s].pc = "row" /\ ListOk(list) /\ UNCHANGED done
      /\ table' = [table EXCEPT ![Head(list)[1]] = None]
      /\ job' = [job EXCEPT ![s] = IF list \ {Head(list)} = {} THEN Idle
                                   ELSE [@ EXCEPT !.pc = "file", !.list = list \ {Head(list)}]]
  BY <1>1 DEF RotateRow, Erase, JobInv, JobOk
<1>3. Head(list) \in list /\ Head(list)[1] \in done
  BY <1>2, HeadOk
<1>4. PICK x : x = Head(list)[1]
  OBVIOUS
<1>5. Backed(x) /\ x \in Id
  BY <1>1, <1>2, <1>3, <1>4, Ids DEF BackedInv, Cutting, TableInv
<1>6. \A j \in Id : table'[j] = IF j = x THEN None ELSE table[j]
  BY <1>2, <1>4 DEF TableInv
<1>7. ASSUME NEW i \in Id, Backed(i) PROVE Backed(i)'
  <2>1. CASE x > i
    <3>1. \A j \in Id : j > x => j > i /\ j # x
      BY <1>5, <2>1, Ids
    <3>2. After(x) \subseteq After(i)'
      BY <1>2, <1>6, <3>1 DEF After
    <3> QED
      BY <1>5, <3>2, BackedGrows
  <2>2. CASE ~(x > i)
    <3>1. After(i) \subseteq After(i)'
      BY <1>2, <1>6, <2>2 DEF After
    <3> QED
      BY <1>7, <3>1, BackedGrows
  <2> QED
    BY <2>1, <2>2
<1>8. Backed(x)'
  BY <1>5, <1>7
<1>9. \A i \in done : table'[i] # None \/ Backed(i)'
  <2>1. ASSUME NEW i \in done PROVE table'[i] # None \/ Backed(i)'
    <3>1. i \in Id
      BY Ids DEF TableInv
    <3> QED
      BY <1>6, <1>7, <1>8, <3>1 DEF BackedInv
  <2> QED
    BY <2>1
<1>10. \A q \in Stamp : Cutting(q)' => Cutting(q) /\ job'[q].list \subseteq job[q].list
  <2>1. \A q \in Stamp \ {s} : job'[q] = job[q]
    BY <1>2 DEF JobInv
  <2>2. Cutting(s)' => job'[s].list \subseteq job[s].list
    <3>1. CASE list \ {Head(list)} = {}
      BY <1>2, <3>1, IdleIs DEF JobInv, Cutting
    <3>2. CASE list \ {Head(list)} # {}
      <4>1. job' = [job EXCEPT ![s] = [@ EXCEPT !.pc = "file", !.list = list \ {Head(list)}]]
        BY <1>2, <3>2
      <4>2. job'[s] = [job[s] EXCEPT !.pc = "file", !.list = list \ {Head(list)}]
        BY <4>1 DEF JobInv
      <4>3. job'[s].list = list \ {Head(list)} \/ job'[s].list = job[s].list
        BY <4>2
      <4> QED
        BY <1>1, <4>3
    <3> QED
      BY <3>1, <3>2
  <2> QED
    BY <1>2, <2>1, <2>2 DEF Cutting
<1>11. ASSUME NEW q \in Stamp, Cutting(q)', NEW e \in job'[q].list PROVE Backed(e[1])'
  <2>1. Cutting(q) /\ e \in job[q].list
    BY <1>10, <1>11
  <2>2. Backed(e[1]) /\ e[1] \in done
    BY <2>1 DEF BackedInv, JobInv, JobOk, Cutting, ListOk
  <2> QED
    BY <1>7, <2>2, Ids DEF TableInv
<1> QED
  BY <1>2, <1>9, <1>11 DEF BackedInv

\* The steps of making a backup that cut nothing.
LEMMA JobLists ==
  ASSUME JobInv, NEW s \in Stamp,
         JobRead(s) \/ JobRun(s) \/ DumpDatabase(s) \/ Mix(s) \/ Pack(s) \/ JobSave(s) \/ RotateFile(s)
  PROVE  /\ \A q \in Stamp \ {s} : job'[q] = job[q]
         /\ Cutting(s)' <=> Cutting(s)
         /\ Cutting(s) => job'[s].list = job[s].list
<1>1. DOMAIN job = Stamp
  BY DEF JobInv
<1>2. \A q \in Stamp \ {s} : job'[q] = job[q]
  BY <1>1 DEF JobRead, JobRun, DumpDatabase, Mix, Pack, JobSave, RotateFile
<1>3. CASE JobRead(s)
  <2>1. job' = [job EXCEPT ![s] = Idle] \/ job' = [job EXCEPT ![s] = [@ EXCEPT !.pc = "run", !.row = table[job[s].id]]]
    BY <1>3 DEF JobRead
  <2>2. job[s].pc = "read"
    BY <1>3 DEF JobRead
  <2>3. ~Cutting(s)'
    <3>1. CASE job' = [job EXCEPT ![s] = Idle]
      BY <1>1, <3>1, IdleIs DEF Cutting
    <3>2. CASE job' = [job EXCEPT ![s] = [@ EXCEPT !.pc = "run", !.row = table[job[s].id]]]
      <4>1. job'[s].pc \in {"run", job[s].pc}
        BY <1>1, <3>2
      <4> QED
        BY <2>2, <4>1 DEF Cutting
    <3> QED
      BY <2>1, <3>1, <3>2
  <2> QED
    BY <1>2, <2>2, <2>3 DEF Cutting
<1>4. CASE JobRun(s)
  <2>1. job[s].pc = "run" /\ job'[s].pc \in {"dump", job[s].pc}
    BY <1>1, <1>4 DEF JobRun
  <2> QED
    BY <1>2, <2>1 DEF Cutting
<1>5. CASE DumpDatabase(s) \/ Mix(s) \/ Pack(s)
  <2>1. job[s].pc \in {"dump", "pack"}
    BY <1>5 DEF DumpDatabase, Mix, Pack
  <2>2. job'[s].pc \in {"pack", "save", job[s].pc}
    <3>1. ASSUME NEW copy, job' = [job EXCEPT ![s].pc = "pack", ![s].copy = copy]
          PROVE  job'[s].pc \in {"pack", job[s].pc}
      BY <1>1, <3>1
    <3>2. ASSUME job' = [job EXCEPT ![s].pc = "save", ![s].row.status = "failed"]
          PROVE  job'[s].pc \in {"save", job[s].pc}
      BY <1>1, <3>2
    <3>3. ASSUME NEW ok, job' = [job EXCEPT ![s].pc = "save", ![s].copy = None, ![s].row.enc = TRUE, ![s].row.status = ok]
          PROVE  job'[s].pc \in {"save", job[s].pc}
      BY <1>1, <3>3
    <3>4. ASSUME job' = [job EXCEPT ![s].pc = "save", ![s].copy = None, ![s].row.status = "failed"]
          PROVE  job'[s].pc \in {"save", job[s].pc}
      BY <1>1, <3>4
    <3>5. ASSUME job' = [job EXCEPT ![s].copy = Broken]
          PROVE  job'[s].pc = job[s].pc
      BY <1>1, <3>5
    <3> QED
      BY <1>5, <3>1, <3>2, <3>3, <3>4, <3>5 DEF DumpDatabase, Mix, Pack
  <2> QED
    BY <1>2, <2>1, <2>2 DEF Cutting
<1>6. CASE JobSave(s)
  <2>1. job[s].pc = "save" /\ (job' = [job EXCEPT ![s].pc = "list"] \/ job' = [job EXCEPT ![s] = Idle])
    BY <1>6 DEF JobSave
  <2>2. job'[s].pc \in {"list", "idle", "save"}
    <3>1. CASE job' = [job EXCEPT ![s].pc = "list"]
      <4>1. job'[s].pc \in {"list", job[s].pc}
        BY <1>1, <3>1
      <4> QED
        BY <2>1, <4>1
    <3>2. CASE job' = [job EXCEPT ![s] = Idle]
      BY <1>1, <3>2, IdleIs
    <3> QED
      BY <2>1, <3>1, <3>2
  <2> QED
    BY <1>2, <2>1, <2>2 DEF Cutting
<1>7. CASE RotateFile(s)
  <2>1. job[s].pc = "file" /\ job' = [job EXCEPT ![s].pc = "row"]
    BY <1>7 DEF RotateFile
  <2>2. job'[s].pc \in {"row", job[s].pc} /\ job'[s].list = job[s].list
    BY <1>1, <2>1
  <2> QED
    BY <1>2, <2>1, <2>2 DEF Cutting
<1> QED
  BY <1>3, <1>4, <1>5, <1>6, <1>7

LEMMA MakeBacked ==
  ASSUME Copies, TracksInv, BackedInv, NEW s \in Stamp, MakeBackup(s)
  PROVE  BackedInv'
<1> USE DEF TracksInv
<1>1. done \subseteq Id /\ JobOk(s)
  BY Ids DEF TableInv, JobInv
<1>2. CASE JobRead(s) \/ DumpDatabase(s) \/ Mix(s) \/ Pack(s) \/ RotateFile(s)
  <2>1. UNCHANGED <<table, done>>
    BY <1>2 DEF JobRead, DumpDatabase, Mix, Pack, RotateFile
  <2>2. \A q \in Stamp : Cutting(q)' => Cutting(q) /\ job'[q].list = job[q].list
    BY <1>2, JobLists DEF Cutting
  <2> QED
    BY <1>1, <2>1, <2>2, BackedStays
<1>3. CASE JobRun(s) \/ JobSave(s)
  <2>1. PICK i, row : i = job[s].id /\ row = job[s].row
    OBVIOUS
  <2>2. row \in Row /\ i = s
    BY <1>1, <1>3, <2>1 DEF JobRun, JobSave, JobOk, Making
  <2>3. [row EXCEPT !.status = "running"] \in Row
    BY <2>2 DEF Row, Status
  <2>4. PICK new \in Row : table' = [table EXCEPT ![i] = new]
    BY <1>3, <2>1, <2>2, <2>3 DEF JobRun, JobSave, Save
  <2>5. \A j \in Id : (table[j] # None => table'[j] # None) /\ (j = s => table'[j] # None)
    BY <2>2, <2>4, RowsStay
  <2>6. done' = done \/ done' = done \cup {s}
    BY <1>3 DEF JobRun, JobSave
  <2>7. \A q \in Stamp : Cutting(q)' => Cutting(q) /\ job'[q].list = job[q].list
    BY <1>3, JobLists DEF Cutting
  <2> QED
    BY <1>1, <2>5, <2>6, <2>7, Ids, BackedStays
<1>4. CASE RotateList(s)
  <2>1. UNCHANGED <<table, done>> /\ \A q \in Stamp \ {s} : job'[q] = job[q]
    BY <1>4 DEF RotateList, JobInv
  <2>2. Cutting(s)' => \A e \in job'[s].list : Backed(e[1])'
    BY <1>4, ListBacked
  <2>3. \A q \in Stamp \ {s} : Cutting(q)' => Cutting(q) /\ job'[q].list = job[q].list
    BY <2>1 DEF Cutting
  <2> QED
    BY <1>1, <2>1, <2>2, <2>3, BackedStays
<1> QED
  BY <1>2, <1>3, <1>4, RowBacked DEF MakeBackup

LEMMA SavedBacked ==
  ASSUME Copies, TracksInv, BackedInv, UNCHANGED <<done, job>>,
         UNCHANGED table \/ \E i, row : row \in Row /\ table' = [table EXCEPT ![i] = row]
  PROVE  BackedInv'
<1>1. \A j \in Id : table[j] # None => table'[j] # None
  <2>1. ASSUME NEW i, NEW row \in Row, table' = [table EXCEPT ![i] = row]
        PROVE  \A j \in Id : table[j] # None => table'[j] # None
    BY <2>1, RowsStay DEF TracksInv
  <2> QED
    BY <2>1
<1>2. done \subseteq Id /\ \A q \in Stamp : Cutting(q)' => Cutting(q)
  BY Ids DEF TracksInv, TableInv, Cutting
<1> QED
  BY <1>1, <1>2, BackedStays

LEMMA OthersBacked ==
  ASSUME Copies, Shape, TracksInv, BackedInv, RestoreBackup \/ SetSchedule \/ DeleteBackup, ~Thinned'
  PROVE  BackedInv'
<1> USE DEF TracksInv
<1>1. CASE RestoreBackup
  <2>1. UNCHANGED <<done, job>>
    BY <1>1 DEF RestoreBackup, RestoreRead, RestoreMark, RestoreOpen, RestoreRename, RestoreCopy, RestoreVerify,
               RestoreFiles, RestoreSave, RestoreUnchanged
  <2>2. ASSUME NEW r \in Restore, RestoreMark(r) \/ RestoreSave(r)
        PROVE  \E i, row : row \in Row /\ table' = [table EXCEPT ![i] = row]
    <3>1. PICK i, row : i = restore[r].id /\ row = restore[r].row
      OBVIOUS
    <3>2. row \in Row
      BY <2>2, <3>1 DEF RestoreMark, RestoreSave, CopiesInv, RestoreInv, RowOk, Pc
    <3>3. [row EXCEPT !.status = "restoring"] \in Row
      BY <3>2 DEF Row, Status
    <3> QED
      BY <2>2, <3>1, <3>2, <3>3 DEF RestoreMark, RestoreSave, Save
  <2>3. UNCHANGED table \/ \E i, row : row \in Row /\ table' = [table EXCEPT ![i] = row]
    BY <1>1, <2>2 DEF RestoreBackup, RestoreRead, RestoreOpen, RestoreRename, RestoreCopy, RestoreVerify, RestoreFiles
  <2> QED
    BY <2>1, <2>3, SavedBacked
<1>2. CASE SetSchedule
  <2>1. UNCHANGED <<done, job>>
    BY <1>2 DEF SetSchedule, UpdateSchedule, SchedClear, SchedLatest, SchedSave, SchedEntry, SchedUnchanged
  <2>2. CASE SchedClear
    <3>1. \A i \in Id : table'[i] = IF table[i] # None THEN [table[i] EXCEPT !.cron = None] ELSE None
      BY <2>2 DEF SchedClear, Rows
    <3>2. \A i \in Id : \A row : row = table[i] /\ row # None => [row EXCEPT !.cron = None] \in Row
      BY DEF TableInv, Row
    <3>3. \A i \in Id : table[i] # None => table'[i] # None
      BY <3>1, <3>2 DEF Copies
    <3>4. done \subseteq Id /\ \A q \in Stamp : Cutting(q)' => Cutting(q)
      BY <2>1, Ids DEF TableInv, Cutting
    <3> QED
      BY <2>1, <3>3, <3>4, BackedStays
  <2>3. CASE SchedLatest
    <3>1. PICK c, new : c = sched.cron /\ new = [New EXCEPT !.cron = c]
      OBVIOUS
    <3>2. UNCHANGED table \/ (stamps < MaxBackups /\ table' = [table EXCEPT ![next] = new])
      BY <2>3, <3>1 DEF SchedLatest, Insert
    <3>3. stamps < MaxBackups => new \in Row
      BY <3>1, NewIs DEF TableInv, CopiesInv, SchedInv
    <3> QED
      BY <2>1, <3>2, <3>3, SavedBacked
  <2>4. CASE SchedSave
    <3>1. PICK i, row, c : i = sched.id /\ row = sched.row /\ c = sched.cron
      OBVIOUS
    <3>2. row \in Row /\ c \in Crons \cup {None} /\ table' = [table EXCEPT ![i] = [row EXCEPT !.cron = c]]
      BY <2>4, <3>1 DEF SchedSave, CopiesInv, SchedInv, RowOk, Save
    <3>3. [row EXCEPT !.cron = c] \in Row
      BY <3>2 DEF Row
    <3> QED
      BY <2>1, <3>2, <3>3, SavedBacked
  <2>5. ASSUME UNCHANGED table PROVE BackedInv'
    BY <2>1, <2>5, SavedBacked
  <2> QED
    BY <1>2, <2>2, <2>3, <2>4, <2>5 DEF SetSchedule, UpdateSchedule, SchedEntry
<1>3. CASE DeleteBackup
  <2>1. ~DeleteRow
    BY DEF DeleteRow, Thinned, Unless
  <2>2. UNCHANGED <<done, job, table>>
    BY <1>3, <2>1 DEF DeleteBackup, DeleteRead, DeleteFiles, DeleteUnchanged
  <2> QED
    BY <2>2, SavedBacked
<1> QED
  BY <1>1, <1>2, <1>3

\* A restart that finds the panel's own file.
LEMMA OwnFile ==
  ASSUME Parameters, NEW old, Restart(old), ~Reborn'
  PROVE  table' = CleanupStaleBackups(table, old) /\ UNCHANGED done /\ job' = [s \in Stamp |-> Idle]
<1>1. disk = Live
  BY DEF Restart, Reborn
<1>2. Found = [table |-> table, next |-> next]
  BY <1>1 DEF Parameters, Found
<1>3. PICK found : found = Found
  OBVIOUS
<1>4. found.table = table
  BY <1>2, <1>3
<1> QED
  BY <1>3, <1>4 DEF Restart

LEMMA RestartBacked ==
  ASSUME Copies, TracksInv, BackedInv, NEW old, Restart(old), ~Reborn'
  PROVE  BackedInv'
<1>1. /\ table' = CleanupStaleBackups(table, old) /\ UNCHANGED done
      /\ job' = [s \in Stamp |-> Idle]
  BY OwnFile DEF Copies
<1>2. \A i \in Id : table'[i] = table[i] \/ (table[i] # None /\ table'[i] = [table[i] EXCEPT !.status = "failed"])
  BY <1>1 DEF CleanupStaleBackups, Unfinished
<1>3. \A i \in Id : \A row : row = table[i] /\ row # None => [row EXCEPT !.status = "failed"] \in Row
  BY DEF TracksInv, TableInv, Row, Status
<1>4. \A i \in Id : table[i] # None => table'[i] # None
  <2>1. ASSUME NEW i \in Id, table[i] # None PROVE table'[i] # None
    <3>1. PICK row : row = table[i]
      OBVIOUS
    <3>2. [row EXCEPT !.status = "failed"] # None
      BY <1>3, <2>1, <3>1 DEF Copies
    <3> QED
      BY <1>2, <2>1, <3>1, <3>2
  <2> QED
    BY <2>1
<1>5. done \subseteq Id /\ \A s \in Stamp : ~Cutting(s)'
  BY <1>1, IdleIs, Ids DEF TracksInv, TableInv, Cutting
<1> QED
  BY <1>1, <1>4, <1>5, BackedStays

LEMMA NextBacked ==
  ASSUME Copies, Shape, Reborn \/ TracksInv, Thinned \/ BackedInv, [Next]_vars
  PROVE  (Thinned \/ BackedInv)'
<1> SUFFICES ASSUME ~Thinned' PROVE BackedInv'
  OBVIOUS
<1>1. BackedInv /\ TracksInv /\ ~Reborn'
  BY ExcuseGrows DEF Thinned, Reborn, Unless
<1>2. CASE UNCHANGED vars
  BY <1>1, <1>2, SavedBacked DEF vars
<1> QED
  BY <1>1, <1>2, CreateBacked, MakeBacked, OthersBacked, RestartBacked DEF Next

\* One of the known ways of leaving more than the retention count.
Uncounted == Unless({"hidden", "resurrected", "overwritten", "interrupted", "restored"})

\* A backup that is being restored was completed, and will be.
Holding == {i \in Id : table[i] # None /\ table[i].status \in {"completed", "restoring"}}

Listed == {i \in Id : \E s \in Stamp : Cutting(s) /\ \E e \in job[s].list : e[1] = i}

ToRotate == \E s \in Stamp : job[s].pc = "list"

\* No more is held than the retention count, unless it is to be removed, or a
\* rotation is still to look.
CountInv == ToRotate \/ Cardinality(Holding \ Listed) <= Keep

LEMMA Fewer ==
  ASSUME NEW S, NEW T, S \subseteq T, T \subseteq Id, Cardinality(T) <= Keep
  PROVE  Cardinality(S) <= Keep
<1>1. Cardinality(S) \in Nat /\ Cardinality(T) \in Nat /\ Cardinality(S) <= Cardinality(T)
  BY Counting
<1>2. Keep \in Nat
  BY BackupsAssumption
<1> QED
  BY <1>1, <1>2

LEMMA CountStays ==
  ASSUME CountInv, ToRotate => ToRotate', Holding' \ Listed' \subseteq Holding \ Listed
  PROVE  CountInv'
<1>1. PICK S, T : S = Holding' \ Listed' /\ T = Holding \ Listed
  OBVIOUS
<1>2. S \subseteq T /\ T \subseteq Id
  BY <1>1 DEF Holding
<1>3. Cardinality(T) <= Keep => Cardinality(S) <= Keep
  BY <1>2, Fewer
<1> QED
  BY <1>1, <1>3 DEF CountInv

\* A step that cuts nothing, and makes no other row one that is held.
LEMMA CountKeeps ==
  ASSUME CountInv, ToRotate => ToRotate', \A s \in Stamp : Cutting(s) => Cutting(s)' /\ job'[s].list = job[s].list,
         \A i \in Id : table'[i] # None /\ table'[i].status \in {"completed", "restoring"} => i \in Holding
  PROVE  CountInv'
<1>1. Holding' \subseteq Holding
  BY DEF Holding
<1>2. Listed \subseteq Listed'
  BY DEF Listed
<1> QED
  BY <1>1, <1>2, CountStays

LEMMA JobTurns ==
  ASSUME JobInv, NEW s \in Stamp,
         JobRead(s) \/ JobRun(s) \/ DumpDatabase(s) \/ Mix(s) \/ Pack(s) \/ JobSave(s) \/ RotateFile(s)
  PROVE  ToRotate => ToRotate'
<1>1. job[s].pc # "list" /\ \A q \in Stamp \ {s} : job'[q] = job[q]
  BY JobLists DEF JobRead, JobRun, DumpDatabase, Mix, Pack, JobSave, RotateFile
<1> QED
  BY <1>1 DEF ToRotate

LEMMA CreateCount ==
  ASSUME TracksInv, CountInv, CreateBackup
  PROVE  CountInv'
<1> USE DEF TracksInv
<1>1. /\ stamps < MaxBackups /\ table' = [table EXCEPT ![next] = New]
      /\ job' = [job EXCEPT ![stamps + 1] = [Idle EXCEPT !.pc = "read", !.id = next]]
  BY DEF CreateBackup, Insert
<1>2. PICK n \in Stamp : n = stamps + 1
  BY <1>1, BackupsAssumption DEF TableInv, Stamp
<1>3. job[n].pc = "idle"
  <2>1. ~(n <= stamps)
    BY <1>2, BackupsAssumption DEF TableInv
  <2> QED
    BY <2>1 DEF JobInv, JobOk
<1>4. \A q \in Stamp \ {n} : job'[q] = job[q]
  BY <1>1, <1>2 DEF JobInv
<1>5. ToRotate => ToRotate'
  BY <1>3, <1>4 DEF ToRotate
<1>6. \A s \in Stamp : Cutting(s) => Cutting(s)' /\ job'[s].list = job[s].list
  BY <1>3, <1>4 DEF Cutting
<1>7. New.status = "pending"
  BY <1>1, NewIs DEF TableInv
<1>8. \A i \in Id : table'[i] = IF i = next THEN New ELSE table[i]
  BY <1>1 DEF TableInv
<1> QED
  BY <1>5, <1>6, <1>7, <1>8, CountKeeps DEF Holding

LEMMA ListCount ==
  ASSUME TracksInv, CountInv, NEW s \in Stamp, RotateList(s), ~Uncounted'
  PROVE  CountInv'
<1> USE DEF TracksInv
<1>1. UNCHANGED table /\ Having("restoring") = {} /\ DOMAIN job = Stamp
  BY DEF RotateList, Uncounted, Unless, JobInv
<1>2. PICK S, T : S = Having("completed") /\ T = {i \in S : Cardinality({j \in S : j > i}) < Keep}
  OBVIOUS
<1>3. S \subseteq Id /\ \A i \in S : table[i].stamp = i
  BY <1>2 DEF Having, Rows, TableInv, RowOk
<1>4. Cardinality(T) <= Keep
  BY <1>2, <1>3, FewBehind, BackupsAssumption
<1>5. Holding' = S
  BY <1>1, <1>2 DEF Holding, Having, Rows
<1>6. ASSUME NEW i \in S, i \notin T PROVE i \in Listed'
  <2>1. PICK U : U = {j \in S : j > i}
    OBVIOUS
  <2>2. U = Newer(i) \cap Having("completed")
    BY <1>2, <1>3, <1>6, <2>1 DEF Newer, Having
  <2>3. Cardinality(U) >= Keep
    <3>1. Cardinality(U) \in Nat /\ Keep \in Nat
      BY <1>3, <2>1, Counting, BackupsAssumption
    <3> QED
      BY <1>2, <1>6, <2>1, <3>1
  <2>4. i \in Beyond
    BY <1>2, <1>6, <2>2, <2>3 DEF Beyond
  <2>5. job' = [job EXCEPT ![s] = [@ EXCEPT !.pc = "file", !.row = None, !.list = {<<j, table[j]>> : j \in Beyond}]]
    BY <2>4 DEF RotateList
  <2>6. PICK list : list = {<<j, table[j]>> : j \in Beyond}
    OBVIOUS
  <2>7. job' = [job EXCEPT ![s] = [@ EXCEPT !.pc = "file", !.row = None, !.list = list]]
    BY <2>5, <2>6
  <2>8. job'[s].pc = "file" /\ job'[s].list = list
    BY <1>1, <2>7
  <2>9. \E e \in list : e[1] = i
    <3>1. <<i, table[i]>> \in list /\ <<i, table[i]>>[1] = i
      BY <2>4, <2>6
    <3> QED
      BY <3>1
  <2> QED
    BY <1>3, <1>6, <2>8, <2>9 DEF Listed, Cutting
<1>7. Holding' \ Listed' \subseteq T
  BY <1>5, <1>6
<1>8. T \subseteq Id
  BY <1>2, <1>3
<1>9. PICK V : V = Holding' \ Listed'
  OBVIOUS
<1>10. Cardinality(V) <= Keep
  BY <1>4, <1>7, <1>8, <1>9, Fewer
<1> QED
  BY <1>9, <1>10 DEF CountInv

LEMMA RowCount ==
  ASSUME TracksInv, CountInv, NEW s \in Stamp, RotateRow(s)
  PROVE  CountInv'
<1> USE DEF TracksInv
<1>1. PICK list : list = job[s].list
  OBVIOUS
<1>2. /\ job[s].pc = "row" /\ ListOk(list) /\ DOMAIN job = Stamp
      /\ table' = [table EXCEPT ![Head(list)[1]] = None]
      /\ job' = [job EXCEPT ![s] = IF list \ {Head(list)} = {} THEN Idle
                                   ELSE [@ EXCEPT !.pc = "file", !.list = list \ {Head(list)}]]
  BY <1>1 DEF RotateRow, Erase, JobInv, JobOk
<1>3. PICK x : x = Head(list)[1]
  OBVIOUS
<1>4. \A j \in Id : table'[j] = IF j = x THEN None ELSE table[j]
  BY <1>2, <1>3 DEF TableInv
<1>5. \A q \in Stamp \ {s} : job'[q] = job[q]
  BY <1>2
<1>6. ToRotate => ToRotate'
  BY <1>2, <1>5 DEF ToRotate
<1>7. Holding' \subseteq Holding \ {x}
  BY <1>4 DEF Holding
<1>8. ASSUME NEW i \in Listed, i # x PROVE i \in Listed'
  <2>1. PICK q \in Stamp : Cutting(q) /\ \E e \in job[q].list : e[1] = i
    BY <1>8 DEF Listed
  <2>2. CASE q # s
    BY <1>5, <1>8, <2>1, <2>2 DEF Listed, Cutting
  <2>3. CASE q = s
    <3>1. PICK e \in list : e[1] = i
      BY <1>1, <2>1, <2>3
    <3>2. e \in list \ {Head(list)}
      BY <1>3, <1>8, <3>1
    <3>3. job' = [job EXCEPT ![s] = [@ EXCEPT !.pc = "file", !.list = list \ {Head(list)}]]
      BY <1>2, <3>2
    <3>4. PICK rest : rest = list \ {Head(list)}
      OBVIOUS
    <3>5. job' = [job EXCEPT ![s] = [@ EXCEPT !.pc = "file", !.list = rest]]
      BY <3>3, <3>4
    <3>6. job'[s].pc = "file" /\ job'[s].list = rest
      <4>1. DOMAIN job = Stamp
        BY <1>2
      <4> QED
        BY <3>5, <4>1
    <3> QED
      BY <1>8, <3>1, <3>2, <3>4, <3>6 DEF Listed, Cutting
  <2> QED
    BY <2>2, <2>3
<1> QED
  BY <1>6, <1>7, <1>8, CountStays

LEMMA MakeCount ==
  ASSUME TracksInv, CountInv, NEW s \in Stamp, MakeBackup(s), ~Uncounted'
  PROVE  CountInv'
<1> USE DEF TracksInv
<1>1. JobOk(s) /\ DOMAIN job = Stamp /\ DOMAIN table = Id
  BY DEF TableInv, JobInv
<1>2. CASE JobRead(s) \/ DumpDatabase(s) \/ Mix(s) \/ Pack(s) \/ RotateFile(s)
  <2>1. UNCHANGED table
    BY <1>2 DEF JobRead, DumpDatabase, Mix, Pack, RotateFile
  <2>2. \A q \in Stamp : Cutting(q) => Cutting(q)' /\ job'[q].list = job[q].list
    BY <1>2, JobLists DEF Cutting
  <2>3. ToRotate => ToRotate'
    BY <1>2, JobTurns
  <2> QED
    BY <2>1, <2>2, <2>3, CountKeeps DEF Holding
<1>3. CASE JobRun(s) \/ (JobSave(s) /\ job[s].row.status # "completed")
  <2>1. PICK i, row : i = job[s].id /\ row = job[s].row
    OBVIOUS
  <2>2. row \in Row
    BY <1>1, <1>3, <2>1 DEF JobRun, JobSave, JobOk, Making
  <2>3. [row EXCEPT !.status = "running"].status = "running"
    BY <2>2 DEF Row
  <2>4. CASE JobRun(s)
    <3>1. table' = [table EXCEPT ![i] = [row EXCEPT !.status = "running"]]
      BY <2>1, <2>4 DEF JobRun, Save
    <3>2. \A j \in Id : j # i => table'[j] = table[j]
      BY <1>1, <3>1
    <3>3. \A j \in Id : j = i => table'[j].status = "running"
      BY <1>1, <2>3, <3>1
    <3>4. \A q \in Stamp : Cutting(q) => Cutting(q)' /\ job'[q].list = job[q].list
      BY <2>4, JobLists DEF Cutting
    <3>5. ToRotate => ToRotate'
      BY <2>4, JobTurns
    <3> QED
      BY <3>2, <3>3, <3>4, <3>5, CountKeeps DEF Holding
  <2>5. CASE JobSave(s)
    <3>1. table' = [table EXCEPT ![i] = row]
      BY <2>1, <2>5 DEF JobSave, Save
    <3>2. row.status \notin {"completed", "restoring"}
      BY <1>1, <1>3, <2>1, <2>5 DEF JobSave, JobOk, JobRun
    <3>3. \A j \in Id : (j # i => table'[j] = table[j]) /\ (j = i => table'[j] = row)
      BY <1>1, <3>1
    <3>4. \A q \in Stamp : Cutting(q) => Cutting(q)' /\ job'[q].list = job[q].list
      BY <2>5, JobLists DEF Cutting
    <3>5. ToRotate => ToRotate'
      BY <2>5, JobTurns
    <3> QED
      BY <3>2, <3>3, <3>4, <3>5, CountKeeps DEF Holding
  <2> QED
    BY <1>3, <2>4, <2>5
<1>4. CASE JobSave(s) /\ job[s].row.status = "completed"
  <2>1. job' = [job EXCEPT ![s].pc = "list"]
    BY <1>4 DEF JobSave
  <2>2. job'[s].pc = "list"
    BY <1>1, <2>1
  <2> QED
    BY <2>2 DEF CountInv, ToRotate
<1> QED
  BY <1>2, <1>3, <1>4, ListCount, RowCount DEF MakeBackup

\* A row that is saved over the one that was read, whose status is still held.
LEMMA SavedCount ==
  ASSUME TableInv, CountInv, ~Uncounted', UNCHANGED job, NEW i, NEW old, NEW new, Save(i, old, new),
         new.status \in {"completed", "restoring"} => old.status \in {"completed", "restoring"}
  PROVE  CountInv'
<1>1. table[i] = old /\ table[i] # None /\ table' = [table EXCEPT ![i] = new]
  BY DEF Save, Uncounted, Unless
<1>2. \A j \in Id : table'[j] = IF j = i THEN new ELSE table[j]
  BY <1>1 DEF TableInv
<1>3. \A j \in Id : table'[j] # None /\ table'[j].status \in {"completed", "restoring"} => j \in Holding
  BY <1>1, <1>2 DEF Holding
<1>4. (ToRotate => ToRotate') /\ \A s \in Stamp : Cutting(s) => Cutting(s)' /\ job'[s].list = job[s].list
  BY DEF ToRotate, Cutting
<1> QED
  BY <1>3, <1>4, CountKeeps

LEMMA SameCount ==
  ASSUME CountInv, UNCHANGED job,
         \A i \in Id : table'[i] # None => table[i] # None /\ table'[i].status = table[i].status
  PROVE  CountInv'
<1>1. (ToRotate => ToRotate') /\ \A s \in Stamp : Cutting(s) => Cutting(s)' /\ job'[s].list = job[s].list
  BY DEF ToRotate, Cutting
<1> QED
  BY <1>1, CountKeeps DEF Holding

LEMMA RestoreCount ==
  ASSUME DataInv, TracksInv, CountInv, RestoreBackup, ~Uncounted'
  PROVE  CountInv'
<1> USE DEF TracksInv
<1>1. UNCHANGED job
  BY DEF RestoreBackup, RestoreRead, RestoreMark, RestoreOpen, RestoreRename, RestoreCopy, RestoreVerify,
         RestoreFiles, RestoreSave, RestoreUnchanged
<1>2. ASSUME NEW r \in Restore, RestoreMark(r) PROVE CountInv'
  <2>1. restore[r].row.status = "completed"
    BY <1>2 DEF RestoreMark, DataInv, RestoreData, Pc
  <2> QED
    BY <1>1, <1>2, <2>1, SavedCount DEF RestoreMark
<1>3. ASSUME NEW r \in Restore, RestoreSave(r) PROVE CountInv'
  <2>1. PICK row, i : row = restore[r].row /\ i = restore[r].id
    OBVIOUS
  <2>2. row \in Row
    BY <1>3, <2>1 DEF RestoreSave, CopiesInv, RestoreInv, RowOk, Pc
  <2>3. [row EXCEPT !.status = "restoring"].status = "restoring"
    BY <2>2 DEF Row
  <2>4. Save(i, [row EXCEPT !.status = "restoring"], row)
    BY <1>3, <2>1 DEF RestoreSave
  <2> QED
    BY <1>1, <2>3, <2>4, SavedCount
<1>4. ASSUME UNCHANGED table PROVE CountInv'
  BY <1>1, <1>4, SameCount
<1> QED
  BY <1>2, <1>3, <1>4 DEF RestoreBackup, RestoreRead, RestoreOpen, RestoreRename, RestoreCopy, RestoreVerify, RestoreFiles

LEMMA SchedCount ==
  ASSUME TracksInv, CountInv, SetSchedule, ~Uncounted'
  PROVE  CountInv'
<1> USE DEF TracksInv
<1>1. UNCHANGED job
  BY DEF SetSchedule, UpdateSchedule, SchedClear, SchedLatest, SchedSave, SchedEntry, SchedUnchanged
<1>2. CASE SchedClear
  <2>1. \A i \in Id : table'[i] = IF table[i] # None THEN [table[i] EXCEPT !.cron = None] ELSE None
    BY <1>2 DEF SchedClear, Rows
  <2>2. \A i \in Id : \A row : row = table[i] /\ row # None => [row EXCEPT !.cron = None].status = row.status
    BY DEF TableInv, Row
  <2> QED
    BY <1>1, <2>1, <2>2, SameCount
<1>3. CASE SchedLatest
  <2>1. PICK new : new = [New EXCEPT !.cron = sched.cron]
    OBVIOUS
  <2>2. UNCHANGED table \/ (stamps < MaxBackups /\ table' = [table EXCEPT ![next] = new])
    BY <1>3, <2>1 DEF SchedLatest, Insert
  <2>3. stamps < MaxBackups => new.status = "pending"
    BY <2>1, NewIs DEF TableInv, CopiesInv, SchedInv
  <2>4. \A i \in Id : table'[i] # None /\ table'[i].status \in {"completed", "restoring"} => i \in Holding
    BY <2>2, <2>3 DEF TableInv, Holding
  <2>5. (ToRotate => ToRotate') /\ \A s \in Stamp : Cutting(s) => Cutting(s)' /\ job'[s].list = job[s].list
    BY <1>1 DEF ToRotate, Cutting
  <2> QED
    BY <2>4, <2>5, CountKeeps
<1>4. CASE SchedSave
  <2>1. PICK i, row, c : i = sched.id /\ row = sched.row /\ c = sched.cron
    OBVIOUS
  <2>2. row \in Row /\ Save(i, row, [row EXCEPT !.cron = c])
    BY <1>4, <2>1 DEF SchedSave, CopiesInv, SchedInv, RowOk
  <2>3. [row EXCEPT !.cron = c].status = row.status
    BY <2>2 DEF Row
  <2> QED
    BY <1>1, <2>2, <2>3, SavedCount
<1>5. ASSUME UNCHANGED table PROVE CountInv'
  BY <1>1, <1>5, SameCount
<1> QED
  BY <1>2, <1>3, <1>4, <1>5 DEF SetSchedule, UpdateSchedule, SchedEntry

LEMMA DeleteCount ==
  ASSUME TracksInv, CountInv, DeleteBackup
  PROVE  CountInv'
<1>1. UNCHANGED job /\ (UNCHANGED table \/ \E i : table' = [table EXCEPT ![i] = None])
  BY DEF DeleteBackup, DeleteRead, DeleteFiles, DeleteRow, DeleteUnchanged
<1>2. \A j \in Id : table'[j] # None => table'[j] = table[j]
  BY <1>1 DEF TracksInv, TableInv
<1> QED
  BY <1>1, <1>2, SameCount

\* No restart cuts a rotation: nothing was to be removed, or looked at.
LEMMA RestartCount ==
  ASSUME Parameters, TracksInv, CountInv, NEW old, Restart(old), ~Uncounted'
  PROVE  CountInv'
<1>1. \A s \in Stamp : job[s].pc \notin {"list", "file", "row"}
  BY DEF Restart, Uncounted, Unless
<1>2. table' = CleanupStaleBackups(table, old)
  <2>1. ~Reborn'
    BY DEF Uncounted, Unless, Reborn
  <2> QED
    BY <2>1, OwnFile
<1>3. \A i \in Id : table'[i] = table[i] \/ (table[i] # None /\ table'[i] = [table[i] EXCEPT !.status = "failed"])
  BY <1>2 DEF CleanupStaleBackups, Unfinished
<1>4. \A i \in Id : \A row : row = table[i] /\ row # None => [row EXCEPT !.status = "failed"].status = "failed"
  BY DEF TracksInv, TableInv, Row
<1>5. Holding' \subseteq Holding
  <2>1. ASSUME NEW i \in Holding' PROVE i \in Holding
    <3>1. i \in Id /\ table'[i] # None /\ table'[i].status # "failed"
      BY <2>1 DEF Holding
    <3>2. table'[i] = table[i]
      BY <1>3, <1>4, <3>1
    <3> QED
      BY <2>1, <3>2 DEF Holding
  <2> QED
    BY <2>1
<1>6. ~ToRotate /\ Listed = {}
  BY <1>1 DEF ToRotate, Listed, Cutting
<1> QED
  BY <1>5, <1>6, CountStays

LEMMA NextCount ==
  ASSUME Parameters, DataInv, Reborn \/ TracksInv, Uncounted \/ CountInv, [Next]_vars
  PROVE  (Uncounted \/ CountInv)'
<1> SUFFICES ASSUME ~Uncounted' PROVE CountInv'
  OBVIOUS
<1>1. CountInv /\ TracksInv
  BY ExcuseGrows DEF Uncounted, Reborn, Unless
<1>2. CASE UNCHANGED vars
  BY <1>1, <1>2, SameCount DEF vars
<1> QED
  BY <1>1, <1>2, CreateCount, MakeCount, DeleteCount, RestoreCount, SchedCount, RestartCount DEF Next

LEMMA InitRotation == Init => BackedInv /\ CountInv
<1> SUFFICES ASSUME Init PROVE BackedInv /\ CountInv
  OBVIOUS
<1>1. BackedInv
  BY IdleIs DEF Init, BackedInv, Cutting
<1>2. PICK S : S = Holding \ Listed
  OBVIOUS
<1>3. S = {}
  BY <1>2 DEF Init, Holding
<1>4. Cardinality(S) = 0 /\ Keep \in Nat
  BY <1>3, FS_EmptySet, BackupsAssumption
<1>5. Cardinality(S) <= Keep
  BY <1>4
<1> QED
  BY <1>1, <1>2, <1>5 DEF CountInv

\* Whatever backups rotate at the same time, and whatever is deleted, restored
\* and scheduled meanwhile, rotation leaves the newest and no more: the retention
\* count holds when the goroutines are done, and a completed backup that is gone
\* has as many newer ones (performBackup and rotateBackups).
THEOREM RotationLeavesNewest ==
  ASSUME Copies
  PROVE  Spec => []RotationKeeps
<1> DEFINE Inv == /\ IInv /\ DataInv /\ (Reborn \/ FullInv)
                  /\ (Thinned \/ BackedInv) /\ (Uncounted \/ CountInv)
<1>1. Init => Inv
  BY InitInv, InitData, InitFull, InitRotation DEF Copies
<1>2. Inv /\ [Next]_vars => Inv'
  <2> SUFFICES ASSUME Inv, [Next]_vars PROVE Inv'
    OBVIOUS
  <2>1. Parameters /\ Shape /\ (Reborn \/ TracksInv)
    BY DEF Copies, IInv, FullInv
  <2>2. IInv' /\ DataInv' /\ (Reborn \/ FullInv)'
    BY <2>1, NextInv, NextData, NextFull
  <2> QED
    BY <2>1, <2>2, NextBacked, NextCount
<1>3. Inv => AtMostKeep
  <2> SUFFICES ASSUME Inv, ~Uncounted, \A s \in Stamp : job[s] = Idle PROVE Cardinality(Having("completed")) <= Keep
    BY DEF AtMostKeep, Uncounted
  <2>1. ~ToRotate /\ Listed = {}
    BY IdleIs DEF ToRotate, Listed, Cutting
  <2>2. PICK S, T : S = Having("completed") /\ T = Holding \ Listed
    OBVIOUS
  <2>3. S \subseteq T /\ T \subseteq Id /\ Cardinality(T) <= Keep
    BY <2>1, <2>2 DEF Having, Rows, Holding, CountInv
  <2> QED
    BY <2>2, <2>3, Fewer
<1>4. Inv => NewestAreKept
  <2> SUFFICES ASSUME Inv, ~Thinned, NEW s \in done
               PROVE  \/ \E i \in Rows : table[i].stamp = s
                      \/ Cardinality({i \in Rows : table[i].stamp > s /\ table[i].stamp \in done}) >= Keep
    BY DEF NewestAreKept, Thinned
  <2>1. TracksInv
    BY DEF Thinned, Unless, Reborn, FullInv
  <2>2. s \in Id /\ \A i \in Id : table[i] # None => table[i].stamp = i
    BY <2>1, Ids DEF TracksInv, TableInv, RowOk
  <2>3. {i \in Rows : table[i].stamp > s /\ table[i].stamp \in done} = After(s)
    BY <2>2 DEF Rows, After
  <2>4. table[s] # None \/ Backed(s)
    BY DEF BackedInv
  <2> QED
    BY <2>2, <2>3, <2>4 DEF Rows, Backed
<1>5. Inv => RotationKeeps
  BY <1>3, <1>4 DEF RotationKeeps
<1> HIDE DEF Inv
<1> QED
  BY <1>1, <1>2, <1>5, PTL DEF Spec
===============================================================================
