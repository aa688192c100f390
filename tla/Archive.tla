------------------------------ MODULE Archive ------------------------------
(***************************************************************************)
(* The initial ramdisk (src/dev/initrd.c): a tar archive that is searched  *)
(* and listed in place. An archive is the sequence of its records; where   *)
(* they lie follows from their sizes. The archive begins at address 0, and *)
(* behind the last record there are blocks of zeros.                       *)
(***************************************************************************)
EXTENDS Paths, FiniteSetsExt

CONSTANT Block   \* bytes in a block: 512

ASSUME ArchiveAssumption == Block \in Nat \ {0}

\* A record: the name, a directory's with a slash at the end, and the size.
File(name, size) == [name |-> name, dir |-> FALSE, size |-> size]
Directory(name)  == [name |-> Append(name, ""), dir |-> TRUE, size |-> 0]

Blocks(r)    == IF r.dir THEN 1 ELSE 1 + (r.size + Block - 1) \div Block
Header(a, i) == Block * FoldLeft(LAMBDA sum, r : sum + Blocks(r), 0, SubSeq(a, 1, i - 1))
Data(a, i)   == Header(a, i) + Block
End(a)       == Header(a, Len(a) + 1)
IsHeader(a, at) == \E i \in 1..Len(a) : Header(a, i) = at
RecordAt(a, at) == CHOOSE i \in 1..Len(a) : Header(a, i) = at
Naddr == -1

\* The header behind the one at an address. A zero block counts for an empty file.
NextHeader(a, at) == IF at >= End(a) THEN at + Block ELSE at + Block * Blocks(a[RecordAt(a, at)])

-----------------------------------------------------------------------------
\* initrd_find_file: the first file of that name, walking from header to header.
IsFile(a, at, name) ==
    IsHeader(a, at) /\ LET r == a[RecordAt(a, at)] IN ~r.dir /\ r.name = name

FindFile(a, name) ==
    LET Step(w, i) == IF w.found THEN w
                      ELSE IF IsFile(a, w.at, name) THEN [w EXCEPT !.found = TRUE]
                      ELSE [w EXCEPT !.at = NextHeader(a, @)]
        walk == FoldLeft(Step, [found |-> FALSE, at |-> 0], a)
    IN  IF walk.found THEN walk.at ELSE Naddr

NameAt(a, at) == IF at < End(a) THEN a[RecordAt(a, at)].name ELSE <<"">>

\* Slashes of a directory's path and one more, unless it is ""; slashes of a
\* name with something behind them.
DepthOfDir(p)  == IF p = <<"">> THEN 0 ELSE Len(p)
DepthOfName(p) == IF p[Len(p)] = "" /\ Len(p) > 1 THEN Len(p) - 2 ELSE Len(p) - 1

\* Mutant: entries of the directories below are taken too.
PathMatch_Deep(dir, name) == PrefixOf(dir, name) /\ DepthOfDir(dir) <= DepthOfName(name)

\* initramfs_check_path_match
PathMatch(dir, name) == PrefixOf(dir, name) /\ DepthOfDir(dir) = DepthOfName(name)

\* hdr->name + strlen(dir->path) + 1: behind a slash in the name, or one character of
\* the name too far, or before a slash.
EntryName(dir, name) ==
    LET n == Len(dir)
        rest == From(name, n + 1)
    IN  IF dir = <<"">> THEN name
        ELSE IF dir[n] = name[n] THEN rest
        ELSE <<IF dir[n] = "" THEN Shorter[name[n]] ELSE "">> \o rest

\* Where a record ends for initramfs_readdir: two zero blocks end the listing, but
\* only behind a file.
Behind(a, at) ==
    LET n == NextHeader(a, at)
    IN  IF at < End(a) /\ a[RecordAt(a, at)].dir THEN n
        ELSE IF n < End(a) THEN n
        ELSE Naddr

\* initramfs_readdir: the next entry of a directory that has been listed up to an
\* address, and how far it has been listed then. A zero block is no end for a
\* path that is "": it looks like a file without a name.
ReadEntry(a, dir, at) ==
    LET from  == {i \in 1..Len(a) : Header(a, i) >= at /\ PathMatch(dir, a[i].name)}
        found == IF from = {} THEN End(a) ELSE Header(a, Min(from))
    IN  IF at = Naddr \/ (found >= End(a) /\ (dir # <<"">> \/ at < End(a)))
        THEN [ok |-> FALSE, at |-> Naddr, name |-> <<>>]
        ELSE [ok |-> TRUE, at |-> Behind(a, found), name |-> EntryName(dir, NameAt(a, found))]

-----------------------------------------------------------------------------
(***************************************************************************)
(* What an archive stands for.                                             *)
(***************************************************************************)
Names(a)  == {a[i].name : i \in {j \in 1..Len(a) : ~a[j].dir}}
\* The size of the first file of a name.
SizeOf(a, name) == a[Min({i \in 1..Len(a) : a[i].name = name /\ ~a[i].dir})].size
\* The components of a name, and those of the directory that it is in. The name of a
\* directory ends with a slash.
Parts(name)  == IF name[Len(name)] = "" THEN Len(name) - 1 ELSE Len(name)
Parent(name) == SubSeq(name, 1, Parts(name) - 1)
\* The components of a path without the slashes at its end.
Trimmed(dir) ==
    LET used == {n \in 1..Len(dir) : dir[n] # ""}
    IN  IF used = {} THEN <<>> ELSE SubSeq(dir, 1, Max(used))
\* The records in a directory, in their order.
IsIn(dir, name) == Parent(name) = Trimmed(dir)
Children(a, dir) == SelectSeq([i \in 1..Len(a) |-> i], LAMBDA i : IsIn(dir, a[i].name))
=============================================================================
