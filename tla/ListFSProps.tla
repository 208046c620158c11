---------------------------- MODULE ListFSProps ----------------------------
(***************************************************************************)
(* What the disk image and its readers have to keep.                       *)
(***************************************************************************)
EXTENDS ListFSReaders, FiniteSets

IsHeader(b) == b \in DOMAIN disk /\ disk[b][1] = "header"
IsList(b) == b \in DOMAIN disk /\ disk[b][1] = "list"

\* The blocks of a file, list by list.
RECURSIVE ListsOf(_)
ListsOf(b) == IF ~IsList(b) THEN <<>> ELSE <<b>> \o ListsOf(disk[b][2][ListSize])
NumbersOf(b) ==
  FlattenSeq([i \in DOMAIN ListsOf(b) |->
                SelectSeq(Front(disk[ListsOf(b)[i]][2]), LAMBDA n : n # None)])

Parts(size, bytes) == (size + bytes - 1) \div bytes
Whole(name, size, bytes) == [i \in 1..Parts(size, bytes) |-> <<"data", <<name, i>>>>]
Contents(numbers) == [i \in DOMAIN numbers |-> IF numbers[i] \in DOMAIN disk THEN disk[numbers[i]] ELSE <<>>]

\* The headers from block b on are those of entries.
RECURSIVE Stored(_, _, _, _)
Stored(b, parent, prev, entries) ==
  IF entries = <<>> THEN b = None
  ELSE /\ IsHeader(b)
       /\ LET h == disk[b][2]
              e == Head(entries)
          IN  /\ h.name = e.name /\ h.parent = parent /\ h.prev = prev
              /\ h.flags = 1 <=> e.kind \in {"dir", "denied dir"}
              /\ e.kind = "dir" => Stored(h.data, b, None, e.entries)
              /\ e.kind = "file" => /\ h.size = e.size
                                    /\ Contents(NumbersOf(h.data)) = Whole(e.name, e.size, block_size)
              /\ Stored(h.next, parent, b, Tail(entries))

\* The blocks that can be reached from header b, as often as they are.
RECURSIVE Reached(_)
Reached(b) ==
  IF ~IsHeader(b) THEN <<>>
  ELSE LET h == disk[b][2]
       IN  <<b>> \o ListsOf(h.data) \o NumbersOf(h.data) \o Reached(h.next)
             \o (IF h.flags = 1 THEN Reached(h.data) ELSE <<>>)

Finished == pc \notin {"start", "build", "refused", "full"}

\* What the builder says it has stored can be read back from block 0: every
\* entry of every directory in its place, with the contents it had, however
\* the blocks of a directory, its subdirectories and its files are mixed.
TreeOnDisk == Finished => Stored(first_file, None, None, job.src)

\* The disk map, where the image has one, marks the blocks in front of the
\* files and those that can be reached, and nothing is reached twice.  The boot
\* loader's blocks in front of the map are kept.
MapIsExact ==
  (Finished /\ fs_header.map_base > 0) =>
    LET used == Reached(first_file)
        reserved == 0..(fs_header.map_base + fs_header.map_size - 1)
    IN  /\ disk[fs_header.map_base] = <<"map", reserved \cup ToSet(used)>>
        /\ Cardinality(ToSet(used)) = Len(used) /\ ToSet(used) \cap reserved = {}
        /\ \A b \in 1..(fs_header.map_base - 1) : disk[b] = <<"boot", b>>

-----------------------------------------------------------------------------
Named(name) == {e \in ToSet(job.src) : e.name = name}
InShell == pc \notin {"start", "build", "done", "refused", "full", "find", "load", "not booted", "lost"}
Answered == pc = "prompt" /\ answer.how # ""

SystemFiles == {"boot.bin", "kernel.bin"}
Complete(e) == e.kind = "file" /\ e.size > 0

\* The shell runs only with both parts of the system whole in memory, also where
\* a file fills its block lists exactly or needs more than one; and it does run
\* when both are on the disk and no read has failed.
BootLoads ==
  /\ InShell => \A name \in SystemFiles :
                  \A e \in Named(name) : loaded[name] = Whole(name, e.size, 512)
  /\ pc = "not booted" /\ ~failed =>
       \E name \in SystemFiles : ~\E e \in Named(name) : Complete(e)

\* The shell starts a program of one sector from that sector and does not know
\* an empty or a missing one; ls shows the root directory in order.  That is so
\* unless a read of the command failed, and even then nothing is started under
\* a name that is not there.
KernelAnswers ==
  Answered =>
    /\ answer.how = "started" => Named(wanted) # {}
    /\ ~failed =>
         IF wanted = "ls"
         THEN [i \in DOMAIN answer.shown |-> answer.shown[i][1]] =
              [i \in DOMAIN job.src |-> job.src[i].name]
         ELSE /\ Named(wanted) = {} => answer.how = "unknown"
              /\ \A e \in Named(wanted) : e.kind = "file" =>
                   /\ e.size = 0 => answer.how = "unknown"
                   /\ e.size \in 1..512 =>
                        answer.how = "started" /\ answer.image = Whole(wanted, e.size, 512)[1]

\* As long as no read fails, the shell reads as headers and lists only what the
\* builder has written as such, for every command but the names of directories
\* and of files whose first list is full: of those the kernel supports none.
NeverLost ==
  (pc = "lost" /\ ~failed) =>
    \E e \in Named(wanted) : e.kind # "file" \/ Parts(e.size, 512) >= 512 \div 8 - 1

\* Building ends, and so do starting the system and every command: no chain of
\* headers or lists leads back to itself.
AlwaysAnswers == pc # "prompt" ~> pc \in {"prompt", "lost", "not booted", "refused", "full", "done"}

\* What ls says of an entry is what stat said of it: " type: directory" is
\* printed for the headers whose flags the builder has set to 1.
DirectoriesAreShown ==
  (Answered /\ wanted = "ls" /\ ~failed) =>
    \A i \in DOMAIN job.src :
      job.src[i].kind = "dir" => answer.shown[i][2] = "directory"
=============================================================================
