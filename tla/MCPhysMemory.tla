---------------------------- MODULE MCPhysMemory ----------------------------
EXTENDS PhysMemoryProps

Usable(base, count) == [type |-> 1, base |-> base, count |-> count]
Reserved(base, count) == [type |-> 2, base |-> base, count |-> count]

\* Low memory first, then what a PC reports above it: one block, two that
\* touch, two or three with a hole between them.
SomeMaps ==
  {<<Usable(0, 1)>> \o m :
     m \in {<<Usable(1, 5)>>,
            <<Usable(1, 2), Usable(3, 3)>>,
            <<Usable(1, 2), Reserved(3, 1), Usable(4, 2)>>,
            <<Usable(1, 1), Reserved(2, 1), Usable(3, 1), Reserved(4, 1), Usable(5, 1)>>}}
==============================================================================
