------------------------------ MODULE MCListFS ------------------------------
EXTENDS ListFSProps

File(name, size) == [name |-> name, kind |-> "file", size |-> size, entries |-> <<>>]
Dir(name, entries) == [name |-> name, kind |-> "dir", size |-> 0, entries |-> entries]
Odd(name, kind) == [name |-> name, kind |-> kind, size |-> 0, entries |-> <<>>]
Job(bs, count, boot, src) == [block_size |-> bs, block_count |-> count, boot |-> boot, src |-> src]

\* The system's own image: programs of one sector, one more byte, no byte at all,
\* and a kernel with two lists.
System == <<File("lbexe", 512), File("boot.bin", 700), File("empty", 0),
            File("kernel.bin", 64 * 512 + 1), File("big", 513)>>

\* Directories in directories, and a kernel that fills its list to the last block.
Nested == <<Dir("src", <<File("a", 1), Dir("deep", <<File("b", 511)>>), File("c", 1024)>>),
            File("kernel.bin", 63 * 512), File("boot.bin", 512),
            Odd("secret", "denied file"), Odd("private", "denied dir"), Odd("pipe", "other"),
            File("lbexe", 511)>>

\* No system, images that are too small, and options that are refused.
Small == <<File("a", 1), Dir("d", <<File("b", 1024), File("c", 2048)>>), File("e", 0)>>

\* Systems that cannot be started.
Broken == {<<Dir("boot.bin", <<File("a", 1)>>)>>, <<File("boot.bin", 0)>>, <<File("boot.bin", 1)>>,
           <<File("boot.bin", 1), Dir("kernel.bin", <<File("a", 1)>>)>>}

ImageJobs ==
  {Job(512, 160, 512, System), Job(512, 160, 512, Nested), Job(512, 2880, 512, <<File("a", 512)>>)}
  \cup {Job(bs, 24, boot, Small) : bs \in {512, 1024}, boot \in {None, 100, 512, 1536, 2048}}
  \cup {Job(512, 16, boot, Small) : boot \in {None, 512, 1536, 2048, 2560}}
  \cup {Job(512, 24, 512, src) : src \in Broken}
  \cup {Job(512, 1, None, Small), Job(256, 24, None, Small)}
EmptyDirJobs == {Job(512, 24, 512, <<File("a", 512), Dir("d", <<>>), File("b", 1)>>)}

Typed == {"ls", "lbexe", "empty", "big", "kernel.bin", "src", "secret", "pipe", "none", ""}
=============================================================================
