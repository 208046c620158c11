--------------------------- MODULE ListFSReaders ---------------------------
(***************************************************************************)
(* Who reads the disk image: the boot loader (boot.asm), which loads       *)
(* boot.bin and kernel.bin, and the kernel's shell (listfs.c, kernel.c),   *)
(* which lists the root directory and starts programs from it.             *)
(*                                                                         *)
(* Both take a block for a sector of 512 bytes.  Where they read what is   *)
(* not there they go on with whatever is in memory; that is "lost" here.   *)
(* Any read may fail, one in the start of the machine and one in a command.*)
(***************************************************************************)
EXTENDS ListFS

CONSTANTS
  Commands,  \* what is typed at the prompt: "ls" or a name
  Faulty     \* reads may fail

VARIABLES
  at,      \* the sector that is read next
  wanted,  \* the file that is looked for, or the command
  loaded,  \* what the boot loader has put in memory: file name |-> blocks
  buffer,  \* the 512 bytes at TEMP_DMA_BUFFER_ADDR
  failed,  \* a read of a sector that is there has failed in this command
  starting,  \* find_file was called by run_new_process, not by is_there_exe
  answer   \* of the last command: [how, image, shown]

readerVars == <<at, wanted, loaded, buffer, failed, starting, answer>>
vars == <<pc, builderVars, readerVars>>

Init ==
  /\ InitBuilder
  /\ at = None /\ wanted = "" /\ loaded = << >> /\ buffer = <<"unread", 0>>
  /\ failed = FALSE /\ starting = FALSE
  /\ answer = [how |-> "", image |-> <<"unread", 0>>, shown |-> <<>>]

OnDisk(s) == s \in 0..(block_count - 1)
Sector(s) == IF s \in DOMAIN disk THEN disk[s] ELSE <<"zero", 0>>
first_file == disk[0][2].first_file
NotBooted == pc' = "not booted"
Lost == pc' = "lost"

-----------------------------------------------------------------------------
(* The boot loader.                                                        *)

\* An image that the loader of this repository can be started from.
Bootable == job.boot = 512 /\ block_size = 512

start ==
  /\ pc = "done" /\ Bootable /\ pc' = "find"
  /\ wanted' = "boot.bin" /\ at' = first_file
  /\ UNCHANGED <<builderVars, loaded, buffer, failed, starting, answer>>

\* load_sector gives up after three attempts, and the message is not the end of it.
BiosError ==
  /\ pc \in {"find", "load"} /\ at # None
  /\ ~OnDisk(at) \/ (Faulty /\ ~failed)
  /\ failed' = OnDisk(at) /\ NotBooted
  /\ UNCHANGED <<builderVars, at, wanted, loaded, buffer, starting, answer>>

find_file_boot ==
  /\ pc = "find"
  /\ \/ /\ at = None \/ (OnDisk(at) /\ Sector(at)[1] # "header")
        /\ NotBooted /\ UNCHANGED <<at, loaded>>
     \/ /\ OnDisk(at) /\ Sector(at)[1] = "header"
        /\ LET f_info == Sector(at)[2]
           IN  \/ /\ f_info.name # wanted
                  /\ at' = f_info.next /\ UNCHANGED <<pc, loaded>>
               \/ /\ f_info.name = wanted
                  /\ at' = f_info.data /\ loaded' = (wanted :> <<>>) @@ loaded
                  \* load_file takes a directory for a part of the path.
                  /\ pc' = IF wanted = "kernel.bin" /\ f_info.flags = 1 THEN "not booted" ELSE "load"
  /\ UNCHANGED <<builderVars, wanted, buffer, failed, starting, answer>>

\* Mutant: the last number of a list is taken for a part of the file.
LoadedList_Whole(list) == list
\* The numbers of a list that load_file_data takes for the file's sectors.
LoadedList(list) == SubSeq(list, 1, 512 \div 8 - 1)

Ended(numbers) == \E i \in DOMAIN numbers : numbers[i] = None
BeforeEnd(numbers) ==
  IF Ended(numbers) THEN SubSeq(numbers, 1, SelectInSeq(numbers, LAMBDA n : n = None) - 1)
  ELSE numbers

load_file_data ==
  /\ pc = "load" /\ at # None /\ OnDisk(at)
  /\ \/ /\ Sector(at)[1] # "list" /\ NotBooted /\ UNCHANGED <<at, loaded>>
     \/ /\ Sector(at)[1] = "list"
        /\ LET numbers == LoadedList(Sector(at)[2])
               taken == BeforeEnd(numbers)
           IN  /\ at' = IF Ended(numbers) THEN None ELSE Sector(at)[2][512 \div 8]
               /\ loaded' = [loaded EXCEPT ![wanted] = @ \o [i \in DOMAIN taken |-> Sector(taken[i])]]
               /\ UNCHANGED pc
  /\ UNCHANGED <<builderVars, wanted, buffer, failed, starting, answer>>

\* After boot.bin the loader goes on in it, and after kernel.bin in the kernel.
file_end ==
  /\ pc = "load" /\ at = None
  /\ \/ loaded[wanted] = <<>> /\ NotBooted /\ UNCHANGED <<at, wanted>>
     \/ /\ loaded[wanted] # <<>> /\ wanted = "boot.bin"
        /\ wanted' = "kernel.bin" /\ at' = first_file /\ pc' = "find"
     \/ /\ loaded[wanted] # <<>> /\ wanted = "kernel.bin"
        /\ pc' = "prompt" /\ UNCHANGED <<at, wanted>>
  /\ UNCHANGED <<builderVars, loaded, buffer, failed, starting, answer>>

-----------------------------------------------------------------------------
(* The kernel's shell.                                                     *)

kernel_main ==
  /\ pc = "prompt"
  /\ \E name \in Commands :
       /\ wanted' = name
       /\ pc' = IF name = "ls" THEN "show_files" ELSE "find_file"
  /\ at' = first_file /\ failed' = FALSE /\ starting' = FALSE
  /\ answer' = [how |-> "", image |-> <<"unread", 0>>, shown |-> <<>>]
  /\ UNCHANGED <<builderVars, loaded, buffer>>

\* flpydsk_read_sector: what is in the buffer afterwards and whether its
\* address is returned.  A read that fails after the seek is not noticed.
Reads(s) ==
  LET failures == [buffer : {buffer}, returned : BOOLEAN, failed : {failed \/ OnDisk(s)}]
  IN  IF ~OnDisk(s) THEN failures
      ELSE {[buffer |-> Sector(s), returned |-> TRUE, failed |-> failed]}
           \cup (IF Faulty /\ ~failed THEN failures ELSE {})
Reading(r) == r \in Reads(at) /\ buffer' = r.buffer /\ failed' = r.failed

\* The block as the 64 bit numbers that get_file_data_pointer looks at; the
\* words of a name are all like the last one, and a boot loader has any.
AsWords(block) ==
  CASE block[1] = "list" -> block[2]
    [] block[1] = "header" ->
         LET h == block[2] IN <<0, h.next, h.prev, h.parent, h.flags, h.data, h.size>>
    [] OTHER -> <<>>

\* Where find_file returns to: is_there_exe asks, run_new_process asks again.
Found(sector) ==
  \/ /\ ~starting /\ sector = None /\ pc' = "prompt"
     /\ answer' = [answer EXCEPT !.how = "unknown"] /\ UNCHANGED <<at, starting>>
  \/ /\ ~starting /\ sector # None /\ pc' = "find_file"
     /\ at' = first_file /\ starting' = TRUE /\ UNCHANGED answer
  \/ /\ starting /\ pc' = "run_new_process" /\ at' = sector /\ UNCHANGED <<starting, answer>>

\* Mutant: the last file of a directory is not compared.
IsFile_NotLast(header) == header.name = wanted /\ header.next # None
IsFile(header) == header.name = wanted

\* Mutant: the end of the chain is not recognised.
EndOfChain_Not(header) == FALSE
EndOfChain(header) == header.next = None

find_file ==
  /\ pc = "find_file"
  /\ \E r \in Reads(at) :
       /\ Reading(r)
       /\ IF ~r.returned \/ r.buffer[1] # "header"
          THEN Lost /\ UNCHANGED <<at, starting, answer>>
          ELSE LET header == r.buffer[2]
               IN  \/ /\ IsFile(header) /\ pc' = "get_file_data_pointer"
                      /\ at' = header.data /\ UNCHANGED <<starting, answer>>
                   \/ ~IsFile(header) /\ EndOfChain(header) /\ Found(None)
                   \/ /\ ~IsFile(header) /\ ~EndOfChain(header)
                      /\ at' = header.next /\ UNCHANGED <<pc, starting, answer>>
  /\ UNCHANGED <<builderVars, wanted, loaded>>

\* The last number before the first -1.
get_file_data_pointer ==
  /\ pc = "get_file_data_pointer"
  /\ \E r \in Reads(at) :
       /\ Reading(r)
       /\ LET words == AsWords(r.buffer)
          IN  \/ /\ r.returned /\ Ended(words)
                 /\ Found(IF words[1] = None THEN None ELSE Last(BeforeEnd(words)))
              \/ ~(r.returned /\ Ended(words)) /\ Lost /\ UNCHANGED <<at, starting, answer>>
  /\ UNCHANGED <<builderVars, wanted, loaded>>

\* The buffer is started, whatever the read has returned.
run_new_process ==
  /\ pc = "run_new_process" /\ pc' = "prompt"
  /\ \E r \in Reads(at) :
       /\ Reading(r)
       /\ answer' = [answer EXCEPT !.how = "started", !.image = r.buffer]
  /\ UNCHANGED <<builderVars, at, wanted, loaded, starting>>

CHECK_BIT(var, n) == (var \div 2^n) % 2 = 1
TypeShown(header) == IF CHECK_BIT(header.flags, 1) THEN "directory" ELSE "file"

show_files ==
  /\ pc = "show_files"
  /\ \E r \in Reads(at) :
       /\ Reading(r)
       /\ \/ ~r.returned /\ pc' = "prompt" /\ UNCHANGED <<at, answer>>
          \/ r.returned /\ r.buffer[1] # "header" /\ Lost /\ UNCHANGED <<at, answer>>
          \/ /\ r.returned /\ r.buffer[1] = "header"
             /\ LET header == r.buffer[2]
                IN  /\ answer' = [answer EXCEPT !.how = "shown",
                                    !.shown = Append(@, <<header.name, TypeShown(header)>>)]
                    /\ at' = header.next
                    /\ pc' = IF EndOfChain(header) THEN "prompt" ELSE pc
  /\ UNCHANGED <<builderVars, wanted, loaded, starting>>

-----------------------------------------------------------------------------
Next ==
  \/ Build /\ UNCHANGED readerVars
  \/ start \/ BiosError \/ find_file_boot \/ load_file_data \/ file_end
  \/ kernel_main \/ find_file \/ get_file_data_pointer \/ run_new_process \/ show_files

\* The builder, the loader and the shell wait for no one but the user, and no
\* read has to fail.
Fairness == WF_vars(Next /\ pc # "prompt" /\ failed' = failed)

Spec == Init /\ [][Next]_vars /\ Fairness
=============================================================================
