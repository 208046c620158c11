------------------------------- MODULE ListFS -------------------------------
(***************************************************************************)
(* make_listfs/make_listfs.c: how a disk image is built from a directory.  *)
(*                                                                         *)
(* Block sizes, block counts and file sizes are those of the program.  A   *)
(* block on the disk is what was written there, as <<kind, contents>>:     *)
(* <<"data", <<file, i>>>> is the i-th part of a file, and a list or a     *)
(* header has its block numbers.  stack has a frame for each call of       *)
(* process_dir and store_file_data that has not returned.                  *)
(***************************************************************************)
EXTENDS Integers, SequencesExt

CONSTANT Jobs  \* command lines: [block_size, block_count, boot, src]

VARIABLES
  job,
  pc,         \* "start", "build", or how it ended
  disk,       \* the blocks written so far
  pos,        \* the block at which output_file stands
  disk_map,
  fs_header,  \* [size, map_base, map_size, first_file]
  stack,
  file        \* the file that is being read: [name, left, part, eof]

builderVars == <<job, disk, pos, disk_map, fs_header, stack, file>>

None == -1
block_size == job.block_size
block_count == job.block_count

\* A list fills a block: numbers of blocks, and last the number of the next list.
ListSize == block_size \div 8

InitBuilder ==
  /\ job \in Jobs /\ pc = "start"
  /\ disk = << >> /\ pos = 0 /\ disk_map = {} /\ stack = <<>>
  /\ fs_header = [size |-> 0, map_base |-> 0, map_size |-> 0, first_file |-> None]
  /\ file = [name |-> "", left |-> 0, part |-> 0, eof |-> FALSE]

-----------------------------------------------------------------------------
(* Blocks.                                                                 *)

\* fseek to a negative offset fails and leaves the file where it stands.
write_block(index, contents) ==
  LET at == IF index = None THEN pos ELSE index
  IN  /\ disk' = [b \in DOMAIN disk \cup {at} |-> IF b = at THEN contents ELSE disk[b]]
      /\ pos' = at + 1

FreeBlocks == 0..(fs_header.size - 1) \ disk_map
alloc_disk_block == CHOOSE b \in FreeBlocks : \A c \in FreeBlocks : b <= c

Taken(b) == disk_map \cup {b}

-----------------------------------------------------------------------------
(* main, before and after the directory is copied.                         *)

check_options == ~(block_size < 512 /\ block_size % 8 = 0) /\ block_count >= 2

\* Blocks of the boot loader after the first: it reads until the end is met.
boot_loader_extra_blocks == IF job.boot < block_size THEN 0 ELSE job.boot \div block_size

\* Blocks of the disk map.
MapSize ==
  LET bytes == block_count \div 8
  IN  (IF bytes % block_size = 0 THEN bytes ELSE bytes + block_size) \div block_size

\* Mutant: the map's own blocks are not reserved.
Reserved_NotMap(base, size) == 0..(base - 1)
Reserved(base, size) == 0..(base + size - 1)

Directory(parent, entries) ==
  [fn |-> "process_dir", parent |-> parent, entries |-> entries, prev_file |-> None,
   cur_file |-> None, first_file |-> None, file_header |-> "malloc"]

Refuse == pc = "start" /\ ~check_options /\ pc' = "refused" /\ UNCHANGED builderVars

open_output_file == (block_count - 1) :> <<"zero", 0>>
init_listfs_header(extra) ==
  [size |-> block_count, map_base |-> extra, map_size |-> MapSize, first_file |-> None]

Start ==
  /\ pc = "start" /\ check_options /\ pc' = "build"
  /\ LET extra == boot_loader_extra_blocks
     IN  /\ disk' = [b \in 1..extra |-> <<"boot", b>>] @@ open_output_file
         /\ pos' = IF extra = 0 THEN block_count ELSE extra + 1
         /\ fs_header' = init_listfs_header(extra)
         /\ disk_map' = Reserved(extra, MapSize)
  /\ stack' = <<Directory(None, job.src)>>
  /\ UNCHANGED <<job, file>>

\* store_disk_map and store_listfs_header.
Store ==
  /\ pc = "build" /\ stack = <<>> /\ pc' = "done"
  /\ LET base == fs_header.map_base
     IN  disk' = [b \in DOMAIN disk \cup {0} \cup base..(base + fs_header.map_size - 1) |->
                    IF b = 0 THEN <<"fs", fs_header>>
                    ELSE IF b \in base..(base + fs_header.map_size - 1)
                    THEN <<"map", disk_map>> ELSE disk[b]]
  /\ pos' = 1
  /\ UNCHANGED <<job, disk_map, fs_header, stack, file>>

-----------------------------------------------------------------------------
(* Calls.                                                                  *)

Building(fn) == pc = "build" /\ stack # <<>> /\ Last(stack).fn = fn
Top == Last(stack)
Becomes(frame) == [stack EXCEPT ![Len(stack)] = frame]

\* What the caller does with the result.
Got(frame, value) ==
  IF frame.fn = "process_dir"
  THEN [frame EXCEPT !.file_header.data = value, !.prev_file = frame.cur_file]
  ELSE [frame EXCEPT !.list = Append(@, value)]

Return(value) ==
  IF Len(stack) = 1
  THEN stack' = <<>> /\ fs_header' = [fs_header EXCEPT !.first_file = value]
  ELSE /\ stack' = [Front(stack) EXCEPT ![Len(stack) - 1] = Got(@, value)]
       /\ UNCHANGED fs_header

\* alloc_disk_block exits when the disk is full.
Full ==
  /\ FreeBlocks = {} /\ pc' = "full"
  /\ \/ Building("process_dir") /\ Top.entries # <<>>
     \/ /\ Building("store_file_data") /\ ~file.eof
        /\ Top.index = None \/ (Len(Top.list) < ListSize - 1 /\ file.left > 0)
  /\ UNCHANGED builderVars

-----------------------------------------------------------------------------
(* process_dir.                                                            *)

\* The entry's header, with what can be known before its contents are stored.
Header(e) ==
  [name |-> e.name, prev |-> Top.prev_file, next |-> None, parent |-> Top.parent,
   flags |-> IF e.kind \in {"dir", "denied dir"} THEN 1 ELSE 0,
   data |-> IF e.kind \in {"denied dir", "denied file"} THEN None ELSE 0,
   size |-> IF e.kind = "file" THEN e.size ELSE 0]

\* Mutants: the header that is written does not lead to the next one, or to itself.
Followed_Not(header, next) == header
Followed_Self(header, next) == [header EXCEPT !.next = Top.prev_file]
Followed(header, next) == [header EXCEPT !.next = next]

\* One turn of the loop, up to the call that stores the entry's contents.
NextEntry ==
  /\ Building("process_dir") /\ Top.entries # <<>> /\ FreeBlocks # {}
  /\ LET e == Head(Top.entries)
         cur_file == alloc_disk_block
         frame == [Top EXCEPT !.entries = Tail(@), !.cur_file = cur_file,
                              !.first_file = IF Top.prev_file = None THEN cur_file ELSE @,
                              !.file_header = Header(e)]
     IN  /\ disk_map' = Taken(cur_file)
         /\ IF Top.prev_file = None THEN UNCHANGED <<disk, pos>>
            ELSE write_block(Top.prev_file, <<"header", Followed(Top.file_header, cur_file)>>)
         /\ stack' = CASE e.kind = "dir" -> Becomes(frame) \o <<Directory(cur_file, e.entries)>>
                       [] e.kind = "file" ->
                            Becomes(frame) \o <<[fn |-> "store_file_data", index |-> None, list |-> <<>>]>>
                       [] OTHER -> Becomes([frame EXCEPT !.prev_file = cur_file])
         /\ file' = IF e.kind = "file"
                    THEN [name |-> e.name, left |-> e.size, part |-> 0, eof |-> FALSE] ELSE file
  /\ UNCHANGED <<job, pc, fs_header>>

EndOfDirectory ==
  /\ Building("process_dir") /\ Top.entries = <<>>
  /\ write_block(Top.prev_file, <<"header", Top.file_header>>)
  /\ Return(Top.first_file)
  /\ UNCHANGED <<job, pc, disk_map, file>>

-----------------------------------------------------------------------------
(* store_file_data.                                                        *)

AllocList ==
  /\ Building("store_file_data") /\ Top.index = None
  /\ \/ /\ file.eof /\ Return(None) /\ UNCHANGED disk_map
     \/ /\ ~file.eof /\ FreeBlocks # {}
        /\ disk_map' = Taken(alloc_disk_block)
        /\ stack' = Becomes([Top EXCEPT !.index = alloc_disk_block]) /\ UNCHANGED fs_header
  /\ UNCHANGED <<job, pc, disk, pos, file>>

Filling == Building("store_file_data") /\ Top.index # None /\ Len(Top.list) < ListSize - 1
Listed(b) == stack' = Becomes([Top EXCEPT !.list = Append(@, b)])

\* One turn of the loop: a part of the file, or none any more.
StorePart ==
  /\ Filling /\ ~file.eof /\ file.left > 0 /\ FreeBlocks # {}
  /\ disk_map' = Taken(alloc_disk_block) /\ Listed(alloc_disk_block)
  /\ write_block(alloc_disk_block, <<"data", <<file.name, file.part + 1>>>>)
  /\ file' = [file EXCEPT !.part = @ + 1, !.eof = file.left < block_size,
                          !.left = IF @ < block_size THEN 0 ELSE @ - block_size]
  /\ UNCHANGED <<job, pc, fs_header>>

StoreNone ==
  /\ Filling /\ (file.eof \/ file.left = 0)
  /\ Listed(None) /\ file' = [file EXCEPT !.eof = TRUE]
  /\ UNCHANGED <<job, pc, disk, pos, disk_map, fs_header>>

NextList ==
  /\ Building("store_file_data") /\ Len(Top.list) = ListSize - 1
  /\ stack' = Append(stack, [fn |-> "store_file_data", index |-> None, list |-> <<>>])
  /\ UNCHANGED <<job, pc, disk, pos, disk_map, fs_header, file>>

EndOfList ==
  /\ Building("store_file_data") /\ Len(Top.list) = ListSize
  /\ write_block(Top.index, <<"list", Top.list>>) /\ Return(Top.index)
  /\ UNCHANGED <<job, pc, disk_map, file>>

Build ==
  \/ Refuse \/ Start \/ Store \/ Full \/ NextEntry \/ EndOfDirectory
  \/ AllocList \/ StorePart \/ StoreNone \/ NextList \/ EndOfList
=============================================================================
