------------------------------- MODULE GeoFiles -------------------------------
(***************************************************************************)
(* One geo database file under UpdateAllDatabases, which the weekly ticker *)
(* and the API run, possibly at the same time: both download to the same   *)
(* .tmp path and rename it.                                                *)
(*                                                                         *)
(* A path names an inode; os.Create on an existing path truncates its      *)
(* inode, which another download may still be writing, and os.Rename moves *)
(* whatever the path names by then.  The modification time that goes into  *)
(* If-Modified-Since is that of the last write: stamp is the latest        *)
(* release upstream at that time.                                          *)
(*                                                                         *)
(* Source: services/geo_service.go.                                        *)
(***************************************************************************)
EXTENDS Naturals, FiniteSets

CONSTANTS
  MaxReleases, \* bound on the releases of upstream
  MaxRestarts, \* bound on restarts of the panel
  NoFile       \* a path without a file

Worker == {"ticker", "api"}
Inode  == 1..3

VARIABLES
  final, tmp, \* the inodes at the two paths, or NoFile
  inode,      \* their contents: [writer, whole, release, stamp]
  update,     \* the two updates: [at, inode, release]
  upstream,   \* the latest release
  wanted,     \* history: the release the last complete update should have left
  restarts,   \* number of restarts
  overlapped, \* history: two updates were at work at once
  raced       \* history: a release came during a download

vars == <<final, tmp, inode, update, upstream, wanted, restarts, overlapped, raced>>

Idle     == [at |-> "idle", inode |-> NoFile, release |-> 0]
At(w)    == update[w].at
Other(w) == CHOOSE o \in Worker : o # w
Busy     == \E w \in Worker : At(w) # "idle"
End(w)   == update' = [update EXCEPT ![w] = Idle]

\* Nothing refers to it any more.
Free(i) == i \notin {final, tmp} /\ \A w \in Worker : update[w].inode # i

\* The inode os.Create gets at a path, and its contents then.
Opened(path) == IF path # NoFile THEN path ELSE CHOOSE i \in Inode : Free(i)
Emptied(w)   == [writer |-> w, whole |-> FALSE, release |-> 0, stamp |-> upstream]

Init ==
  /\ final = NoFile /\ tmp = NoFile
  /\ inode = [i \in Inode |-> [writer |-> "ticker", whole |-> FALSE, release |-> 0, stamp |-> 0]]
  /\ update = [w \in Worker |-> Idle]
  /\ upstream = 1 /\ wanted = 0 /\ restarts = 0
  /\ overlapped = FALSE /\ raced = FALSE

\* Without a file the request is unconditional.
Modified == final # NoFile => inode[final].stamp < upstream

Ask(w) ==
  /\ At(w) = "idle"
  /\ Modified
  /\ update' = [update EXCEPT ![w] =
                  [at |-> "create", inode |-> NoFile, release |-> upstream]]
  /\ overlapped' = (overlapped \/ At(Other(w)) # "idle")
  /\ UNCHANGED <<final, tmp, inode, upstream, wanted, restarts, raced>>

\* The answer 304: the file counts as up to date.
NotModified(w) ==
  /\ At(w) = "idle"
  /\ ~Modified
  /\ wanted' = upstream
  /\ UNCHANGED <<final, tmp, inode, update, upstream, restarts, overlapped, raced>>

\* Mutant: the file is written at its path.
CreateFinal(w) ==
  /\ At(w) = "create"
  /\ LET i == Opened(final) IN
     /\ final' = i
     /\ inode' = [inode EXCEPT ![i] = Emptied(w)]
     /\ update' = [update EXCEPT ![w].at = "copy", ![w].inode = i]
  /\ UNCHANGED <<tmp, upstream, wanted, restarts, overlapped, raced>>

Create(w) ==
  /\ At(w) = "create"
  /\ LET i == Opened(tmp) IN
     /\ tmp' = i
     /\ inode' = [inode EXCEPT ![i] = Emptied(w)]
     /\ update' = [update EXCEPT ![w].at = "copy", ![w].inode = i]
  /\ UNCHANGED <<final, upstream, wanted, restarts, overlapped, raced>>

\* Only the writer that truncated the inode last leaves a whole file, and only
\* if nobody else wrote another release into it.
Copied(w) ==
  /\ At(w) = "copy"
  /\ LET i == update[w].inode IN
     inode' = [inode EXCEPT
       ![i].whole   = (inode[i].writer = w /\ (update[Other(w)].inode = i =>
                         update[Other(w)].release = update[w].release)),
       ![i].release = update[w].release,
       ![i].stamp   = upstream]
  /\ update' = [update EXCEPT ![w].at = "rename"]
  /\ UNCHANGED <<final, tmp, upstream, wanted, restarts, overlapped, raced>>

\* The transfer breaks off: os.Remove(tmpPath), whoever made that file.
CopyFails(w) ==
  /\ At(w) = "copy"
  /\ tmp' = NoFile
  /\ End(w)
  /\ UNCHANGED <<final, inode, upstream, wanted, restarts, overlapped, raced>>

Rename(w) ==
  /\ At(w) = "rename"
  /\ IF tmp # NoFile
     THEN final' = tmp /\ tmp' = NoFile /\ wanted' = update[w].release
     ELSE UNCHANGED <<final, tmp, wanted>>
  /\ End(w)
  /\ UNCHANGED <<inode, upstream, restarts, overlapped, raced>>

Release ==
  /\ upstream < MaxReleases
  /\ upstream' = upstream + 1
  /\ raced' = (raced \/ Busy)
  /\ UNCHANGED <<final, tmp, inode, update, wanted, restarts, overlapped>>

Restart ==
  /\ restarts < MaxRestarts
  /\ restarts' = restarts + 1
  /\ update' = [w \in Worker |-> Idle]
  /\ UNCHANGED <<final, tmp, inode, upstream, wanted, overlapped, raced>>

Next ==
  \/ Release \/ Restart
  \/ \E w \in Worker : \/ Ask(w) \/ NotModified(w) \/ Create(w)
                       \/ Copied(w) \/ CopyFails(w) \/ Rename(w)

Spec == Init /\ [][Next]_vars

TypeOK ==
  /\ {final, tmp} \subseteq Inode \cup {NoFile}
  /\ \A i \in Inode : inode[i].writer \in Worker /\ inode[i].stamp \in 0..MaxReleases
  /\ \A w \in Worker : At(w) \in {"idle", "create", "copy", "rename"}
  /\ upstream \in 1..MaxReleases /\ wanted \in 0..MaxReleases

\* The file is absent or whole at every moment, whatever transfers break off
\* and restarts come, and an update that reports success leaves the release
\* that was the latest when it began; unless two updates overlapped, or a
\* release came out during a download, which then has the newer time.
GeoCurrent ==
  ~overlapped /\ ~raced =>
    /\ final # NoFile => inode[final].whole
    /\ wanted > 0 => final # NoFile /\ inode[final].release >= wanted
===============================================================================
