------------------------------- MODULE Mounts -------------------------------
(***************************************************************************)
(* The mount table and the lookups in it (mounts/calculate.go).            *)
(*                                                                         *)
(* A path is the sequence of its components, the root the empty one.  An   *)
(* entry is [dev, path, kind]: kind is "disk" for a filesystem of a local  *)
(* type, "loop" for one on a loop device, "autofs", or "other" (network,   *)
(* tmpfs, overlay).  The table lists the entries in the order in which     *)
(* they were mounted.                                                      *)
(***************************************************************************)
EXTENDS Lists, SequencesExt, FiniteSetsExt

CONSTANTS
  Length,      \* the length of each component's name
  Wildcard,    \* the component "*" of a pattern
  NoEntry

Components == DOMAIN Length

ASSUME LengthAssumption == Length \in [Components -> Nat \ {0}]

\* len(e.Path), in characters: each component comes after a slash.
PathLen(p) ==
  LET len[n \in 0..Len(p)] == IF n = 0 THEN 0 ELSE len[n - 1] + Length[p[n]] + 1
  IN  IF p = <<>> THEN 1 ELSE len[Len(p)]

HoldsPath(mnt, path) == IsPrefix(mnt, path)

Holders(entries, path) == {i \in DOMAIN entries : HoldsPath(entries[i].path, path)}

\* The longest mount point wins, and of equally long ones the later.
AtLeastAsLong(entries, i, j) ==
  LET a == PathLen(entries[i].path)  b == PathLen(entries[j].path)
  IN  a > b \/ (a = b /\ i >= j)

Find(entries, path) ==
  LET H == Holders(entries, path)
  IN  IF H = {} THEN NoEntry
      ELSE entries[CHOOSE i \in H : \A j \in H : AtLeastAsLong(entries, i, j)]

\* filepath.Match: a wildcard stays within one component.
Fits(pattern, path) ==
  /\ Len(pattern) = Len(path)
  /\ \A i \in DOMAIN path : pattern[i] \in {Wildcard, path[i]}

\* The last entry with each mount point.
Topmost(entries) ==
  {i \in DOMAIN entries : \A j \in DOMAIN entries : entries[j].path = entries[i].path => j <= i}

\* The mount points that match, an autofs one with nothing mounted on top aside.
Match(entries, pattern) ==
  {entries[i].path : i \in {j \in Topmost(entries) :
     Fits(pattern, entries[j].path) /\ entries[j].kind # "autofs"}}

\* Sorting by length is stable.
Before(entries, i, j) ==
  LET a == PathLen(entries[i].path)  b == PathLen(entries[j].path)
  IN  a < b \/ (a = b /\ i < j)

Disks(entries) == {i \in DOMAIN entries : entries[i].kind = "disk"}

\* Mutant of OnePerDevice: bind mounts count again.
EveryDisk(entries) == Disks(entries)

\* The entry with the shortest mount point of each device.
OnePerDevice(entries) ==
  {i \in Disks(entries) : \A j \in Disks(entries) \ {i} :
     entries[j].dev = entries[i].dev => Before(entries, i, j)}

\* How many of them come before entry i.
Rank(entries, i) == Cardinality({j \in OnePerDevice(entries) : Before(entries, j, i)})

LocalFilesystems(entries) ==
  [k \in 1..Cardinality(OnePerDevice(entries)) |->
     entries[CHOOSE i \in OnePerDevice(entries) : Rank(entries, i) = k - 1]]

\* The filesystem that the kernel finds at a path: the last one mounted there or above.
Serving(entries, path) ==
  IF Holders(entries, path) = {} THEN NoEntry ELSE entries[Max(Holders(entries, path))]

\* Entries that a later one is mounted on or above: they are still in the table.
Covered(entries) ==
  {i \in DOMAIN entries : \E j \in DOMAIN entries :
     i < j /\ HoldsPath(entries[j].path, entries[i].path)}
=============================================================================
