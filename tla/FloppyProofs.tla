---------------------------- MODULE FloppyProofs ----------------------------
(***************************************************************************)
(* Proofs about the floppy driver: when no poll times out, FloppyInv of    *)
(* FloppyProps is an inductive invariant, and the safety properties follow *)
(* from it.                                                                *)
(***************************************************************************)
EXTENDS FloppyProps, TLAPS

-----------------------------------------------------------------------------
(* What the driver does, counted from its end.                             *)

Nth(s, r) == s[Len(s) - r + 1]

IsList(s, n) == s \in Seq(Operation) /\ Len(s) = n

LEMMA NthOfTwo ==
  ASSUME NEW m \in Nat, NEW n \in Nat, NEW a, NEW b, IsList(a, m), IsList(b, n)
  PROVE  /\ IsList(a \o b, m + n)
         /\ \A r \in 1..n : Nth(a \o b, r) = Nth(b, r)
         /\ \A r \in Int : n < r /\ r <= n + m => Nth(a \o b, r) = Nth(a, r - n)
<1>2. a \o b \in Seq(Operation) /\ Len(a \o b) = m + n /\ Len(a) = m /\ Len(b) = n
  BY DEF IsList
<1>3. \A i \in 1..(m + n) : (a \o b)[i] = IF i <= m THEN a[i] ELSE b[i - m]
  BY DEF IsList
<1>4. ASSUME NEW r \in 1..n
      PROVE  Nth(a \o b, r) = Nth(b, r)
  <2>1. PICK i : i = m + n - r + 1
    OBVIOUS
  <2>2. i \in 1..(m + n) /\ ~(i <= m) /\ i - m = n - r + 1
    BY <2>1
  <2>3. (a \o b)[i] = b[n - r + 1]
    BY <1>3, <2>2
  <2>. QED
    BY <1>2, <2>1, <2>3 DEF Nth
<1>5. ASSUME NEW r \in Int, n < r, r <= n + m
      PROVE  Nth(a \o b, r) = Nth(a, r - n)
  <2>1. PICK i : i = m + n - r + 1
    OBVIOUS
  <2>2. i \in 1..(m + n) /\ i <= m /\ i = m - (r - n) + 1
    BY <1>5, <2>1
  <2>3. (a \o b)[i] = a[m - (r - n) + 1]
    BY <1>3, <2>2
  <2>4. Nth(a \o b, r) = (a \o b)[i]
    <3>1. Len(a \o b) - r + 1 = i
      BY <1>2, <2>1
    <3>. QED
      BY <3>1 DEF Nth
  <2>5. Nth(a, r - n) = a[m - (r - n) + 1]
    BY <1>2 DEF Nth
  <2>. QED
    BY <2>3, <2>4, <2>5
<1>. QED
  BY <1>2, <1>4, <1>5 DEF IsList

LEMMA Operations ==
  /\ \A n \in {"read", "read_cyl", "wait", "clear", "sleep"} : Do(n) \in Operation
  /\ \A byte \in Int : Send(byte) \in Operation
  /\ \A port \in Nat, value \in 0..255 : Out(port, value) \in Operation
BY DEF Do, Send, Out, Operation

LEMMA OneOperation ==
  ASSUME NEW o \in Operation
  PROVE  IsList(<<o>>, 1) /\ Nth(<<o>>, 1) = o
BY DEF Nth, IsList

LEMMA TwoOperations ==
  ASSUME NEW o \in Operation, NEW p \in Operation
  PROVE  /\ IsList(<<o, p>>, 2)
         /\ Nth(<<o, p>>, 2) = o /\ Nth(<<o, p>>, 1) = p
BY DEF Nth, IsList

LEMMA ThreeOperations ==
  ASSUME NEW o \in Operation, NEW p \in Operation, NEW q \in Operation
  PROVE  /\ IsList(<<o, p, q>>, 3)
         /\ Nth(<<o, p, q>>, 3) = o /\ Nth(<<o, p, q>>, 2) = p /\ Nth(<<o, p, q>>, 1) = q
BY DEF Nth, IsList

LEMMA WaitSteps ==
  /\ IsList(flpydsk_wait_irq, 2)
  /\ Nth(flpydsk_wait_irq, 2) = Do("wait") /\ Nth(flpydsk_wait_irq, 1) = Do("clear")
BY Operations, TwoOperations DEF flpydsk_wait_irq

LEMMA CheckSteps ==
  /\ IsList(flpydsk_check_int, 3)
  /\ Nth(flpydsk_check_int, 3) = Send(CHECK_INT) /\ Nth(flpydsk_check_int, 2) = Do("read")
  /\ Nth(flpydsk_check_int, 1) = Do("read_cyl")
<1>1. Send(CHECK_INT) \in Operation /\ Do("read") \in Operation /\ Do("read_cyl") \in Operation
  BY Operations DEF CHECK_INT
<1>. QED
  BY <1>1, ThreeOperations DEF flpydsk_check_int

LEMMA MotorSteps ==
  ASSUME NEW b \in BOOLEAN
  PROVE  /\ IsList(flpydsk_control_motor(b), 2)
         /\ Nth(flpydsk_control_motor(b), 2) = Out(DOR, IF b THEN 28 ELSE 4)
         /\ Nth(flpydsk_control_motor(b), 1) = Do("sleep")
<1>1. Out(DOR, IF b THEN 28 ELSE 4) \in Operation /\ Do("sleep") \in Operation
  BY Operations DEF DOR
<1>2. flpydsk_control_motor(b) = <<Out(DOR, IF b THEN 28 ELSE 4), Do("sleep")>>
  BY DEF flpydsk_control_motor, current_drive
<1>. QED
  BY <1>1, <1>2, TwoOperations

IsBytes(bytes, n) == bytes \in Seq(Int) /\ Len(bytes) = n

LEMMA SendSteps ==
  ASSUME NEW n \in Nat, NEW bytes, IsBytes(bytes, n)
  PROVE  /\ IsList(Sends(bytes), n)
         /\ \A r \in 1..n : Nth(Sends(bytes), r) = Send(bytes[n - r + 1])
<1>2. DOMAIN bytes = 1..n /\ \A i \in 1..n : bytes[i] \in Int
  BY DEF IsBytes
<1>3. Sends(bytes) = [i \in 1..n |-> Send(bytes[i])]
  BY <1>2 DEF Sends
<1>4. \A i \in 1..n : Send(bytes[i]) \in Operation
  BY <1>2, Operations
<1>5. IsList(Sends(bytes), n)
  BY <1>2, <1>3, <1>4 DEF IsList
<1>. QED
  BY <1>2, <1>3, <1>5 DEF Nth, IsList

IsProduct(k, n, m) == k = n * m

LEMMA RepeatSteps ==
  ASSUME NEW n \in Nat, NEW m \in Nat \ {0}, NEW s, IsList(s, m), NEW k \in Nat, IsProduct(k, n, m)
  PROVE  /\ IsList(Repeat(n, s), k)
         /\ \A i \in 1..k : Repeat(n, s)[i] = s[((i - 1) % m) + 1]
<1>1. Len(s) = m /\ \A i \in 1..m : s[i] \in Operation
  BY DEF IsList
<1>2. \A i \in 1..k : ((i - 1) % m) + 1 \in 1..m
  OBVIOUS
<1>3. Repeat(n, s) = [i \in 1..k |-> s[((i - 1) % m) + 1]]
  BY <1>1 DEF Repeat, IsProduct
<1>4. Repeat(n, s) \in Seq(Operation) /\ Len(Repeat(n, s)) = k
  BY <1>1, <1>2, <1>3
<1>. QED
  BY <1>3, <1>4 DEF IsList

\* The four answers to an interrupt of the reset.
LEMMA FourChecks ==
  /\ IsList(Repeat(4, flpydsk_check_int), 12)
  /\ \A r \in 1..12 :
       LET o == Nth(Repeat(4, flpydsk_check_int), r)
       IN  /\ (r % 3) = 0 => o = Send(CHECK_INT)
           /\ (r % 3) = 2 => o = Do("read")
           /\ (r % 3) = 1 => o = Do("read_cyl")
<1>1. PICK s : s = flpydsk_check_int
  OBVIOUS
<1>2. /\ IsList(s, 3)
      /\ s[1] = Send(CHECK_INT) /\ s[2] = Do("read") /\ s[3] = Do("read_cyl")
  BY <1>1, CheckSteps DEF Nth, IsList
<1>3. PICK t : t = Repeat(4, s)
  OBVIOUS
<1>4. IsList(t, 12) /\ \A i \in 1..12 : t[i] = s[((i - 1) % 3) + 1]
  <2>1. IsProduct(12, 4, 3)
    BY DEF IsProduct
  <2>. QED
    BY <1>2, <1>3, <2>1, RepeatSteps
<1>5. ASSUME NEW r \in 1..12
      PROVE  /\ (r % 3) = 0 => Nth(t, r) = Send(CHECK_INT)
             /\ (r % 3) = 2 => Nth(t, r) = Do("read")
             /\ (r % 3) = 1 => Nth(t, r) = Do("read_cyl")
  <2>1. PICK i : i = 13 - r
    OBVIOUS
  <2>2. i \in 1..12 /\ Nth(t, r) = t[i]
    BY <2>1, <1>4 DEF Nth, IsList
  <2>3. Nth(t, r) = s[((i - 1) % 3) + 1]
    BY <2>2, <1>4
  <2>4. /\ (r % 3) = 0 => ((i - 1) % 3) + 1 = 1
        /\ (r % 3) = 2 => ((i - 1) % 3) + 1 = 2
        /\ (r % 3) = 1 => ((i - 1) % 3) + 1 = 3
    BY <2>1
  <2>. QED
    BY <1>2, <2>3, <2>4
<1>. QED
  BY <1>1, <1>3, <1>4, <1>5

LEMMA SevenReads ==
  /\ IsList(Repeat(7, <<Do("read")>>), 7)
  /\ \A r \in 1..7 : Nth(Repeat(7, <<Do("read")>>), r) = Do("read")
<1>1. PICK s : s = <<Do("read")>>
  OBVIOUS
<1>2. IsList(s, 1) /\ s[1] = Do("read")
  BY <1>1, Operations, OneOperation DEF IsList, Nth
<1>3. PICK t : t = Repeat(7, s)
  OBVIOUS
<1>4. IsList(t, 7) /\ \A i \in 1..7 : t[i] = s[((i - 1) % 1) + 1]
  <2>1. IsProduct(7, 7, 1)
    BY DEF IsProduct
  <2>. QED
    BY <1>2, <1>3, <2>1, RepeatSteps
<1>5. \A i \in 1..7 : t[i] = Do("read")
  <2>1. \A i \in 1..7 : ((i - 1) % 1) + 1 = 1
    OBVIOUS
  <2>. QED
    BY <1>2, <1>4, <2>1
<1>6. \A r \in 1..7 : Nth(t, r) = Do("read")
  BY <1>4, <1>5 DEF Nth, IsList
<1>. QED
  BY <1>1, <1>3, <1>4, <1>6

\* The r-th last step of flpydsk_reset.
IsResetStep(o, r) ==
  /\ r = 16 => o = Out(DOR, 0)
  /\ r = 15 => o = Out(DOR, 12)
  /\ r = 14 => o = Do("wait")
  /\ r = 13 => o = Do("clear")
  /\ r <= 12 /\ (r % 3) = 0 => o = Send(CHECK_INT)
  /\ r <= 12 /\ (r % 3) = 2 => o = Do("read")
  /\ r <= 12 /\ (r % 3) = 1 => o = Do("read_cyl")

LEMMA ResetSteps ==
  /\ IsList(flpydsk_reset, 16)
  /\ \A r \in 1..16 : IsResetStep(Nth(flpydsk_reset, r), r)
<1>1. PICK a, w, c : /\ a = <<Out(DOR, 0), Out(DOR, 12)>> /\ w = flpydsk_wait_irq
                     /\ c = Repeat(4, flpydsk_check_int)
  OBVIOUS
<1>2. /\ IsList(a, 2) /\ Nth(a, 2) = Out(DOR, 0) /\ Nth(a, 1) = Out(DOR, 12)
  <2>1. Out(DOR, 0) \in Operation /\ Out(DOR, 12) \in Operation
    BY Operations DEF DOR
  <2>. QED
    BY <1>1, <2>1, TwoOperations
<1>3. /\ IsList(w, 2) /\ Nth(w, 2) = Do("wait") /\ Nth(w, 1) = Do("clear")
  BY <1>1, WaitSteps
<1>4. /\ IsList(c, 12)
      /\ \A r \in 1..12 : /\ (r % 3) = 0 => Nth(c, r) = Send(CHECK_INT)
                          /\ (r % 3) = 2 => Nth(c, r) = Do("read")
                          /\ (r % 3) = 1 => Nth(c, r) = Do("read_cyl")
  BY <1>1, FourChecks
<1>5. PICK b : b = a \o w
  OBVIOUS
<1>6. /\ IsList(b, 4) /\ Nth(b, 4) = Out(DOR, 0) /\ Nth(b, 3) = Out(DOR, 12)
      /\ Nth(b, 2) = Do("wait") /\ Nth(b, 1) = Do("clear")
  BY <1>2, <1>3, <1>5, NthOfTwo
<1>7. PICK s : s = b \o c
  OBVIOUS
<1>8. /\ IsList(s, 16)
      /\ \A r \in 1..12 : Nth(s, r) = Nth(c, r)
      /\ \A r \in 13..16 : Nth(s, r) = Nth(b, r - 12)
  BY <1>4, <1>6, <1>7, NthOfTwo
<1>9. s = flpydsk_reset
  BY <1>1, <1>5, <1>7 DEF flpydsk_reset
<1>10. \A r \in 1..16 : IsResetStep(Nth(s, r), r)
  BY <1>4, <1>6, <1>8 DEF IsResetStep
<1>. QED
  BY <1>8, <1>9, <1>10

\* The r-th last step of a command that moves the head.
IsHeadStep(o, command, r) ==
  /\ r > 5 => o = Send(command[Len(command) + 6 - r])
  /\ r = 5 => o = Do("wait")
  /\ r = 4 => o = Do("clear")
  /\ r = 3 => o = Send(CHECK_INT)
  /\ r = 2 => o = Do("read")
  /\ r = 1 => o = Do("read_cyl")

LEMMA HeadSteps ==
  ASSUME NEW n \in Nat, NEW command, IsBytes(command, n)
  PROVE  /\ IsList(HeadMoves(command), n + 5)
         /\ \A r \in 1..(n + 5) : IsHeadStep(Nth(HeadMoves(command), r), command, r)
<1>1. PICK a, w, c : a = Sends(command) /\ w = flpydsk_wait_irq /\ c = flpydsk_check_int
  OBVIOUS
<1>2. /\ IsList(a, n)
      /\ \A r \in 1..n : Nth(a, r) = Send(command[n - r + 1])
  BY <1>1, SendSteps
<1>3. /\ IsList(w, 2) /\ Nth(w, 2) = Do("wait") /\ Nth(w, 1) = Do("clear")
  BY <1>1, WaitSteps
<1>4. /\ IsList(c, 3) /\ Nth(c, 3) = Send(CHECK_INT)
      /\ Nth(c, 2) = Do("read") /\ Nth(c, 1) = Do("read_cyl")
  BY <1>1, CheckSteps
<1>5. PICK b : b = a \o w
  OBVIOUS
<1>6. /\ IsList(b, n + 2) /\ Nth(b, 2) = Do("wait") /\ Nth(b, 1) = Do("clear")
      /\ \A r \in 3..(n + 2) : Nth(b, r) = Nth(a, r - 2)
  BY <1>2, <1>3, <1>5, NthOfTwo
<1>7. PICK s : s = b \o c
  OBVIOUS
<1>8. /\ IsList(s, n + 5)
      /\ \A r \in 1..3 : Nth(s, r) = Nth(c, r)
      /\ \A r \in 4..(n + 5) : Nth(s, r) = Nth(b, r - 3)
  BY <1>2, <1>4, <1>6, <1>7, NthOfTwo
<1>9. s = HeadMoves(command)
  BY <1>1, <1>5, <1>7 DEF HeadMoves
<1>10. ASSUME NEW r \in 1..(n + 5)
       PROVE  IsHeadStep(Nth(s, r), command, r)
  <2>1. CASE r <= 3
    BY <1>4, <1>8, <2>1 DEF IsHeadStep
  <2>2. CASE r \in 4..5
    BY <1>2, <1>6, <1>8, <2>2 DEF IsHeadStep
  <2>3. CASE r > 5
    <3>1. r - 5 \in 1..n /\ r - 3 \in 3..(n + 2) /\ r - 3 - 2 = r - 5 /\ n - (r - 5) + 1 = n + 6 - r
      BY <1>2, <2>3
    <3>2. Nth(s, r) = Send(command[n + 6 - r])
      BY <1>2, <1>6, <1>8, <2>3, <3>1
    <3>. QED
      BY <2>3, <3>2 DEF IsHeadStep, IsBytes
  <2>. QED
    BY <1>2, <2>1, <2>2, <2>3
<1>. QED
  BY <1>1, <1>8, <1>9, <1>10

\* The r-th last step of flpydsk_install.
IsInstallStep(o, r) ==
  /\ r > 6 => IsResetStep(o, r - 6)
  /\ r = 6 => o = Out(\h3f7, 0)
  /\ r = 5 => o = Send(SPECIFY)
  /\ r = 4 => o = Send(48)
  /\ r = 3 => o = Send(32)
  /\ r = 2 => o = Out(DOR, 28)
  /\ r = 1 => o = Do("sleep")

LEMMA InstallIs ==
  /\ IsList(InstallSteps, 22)
  /\ \A r \in 1..22 : IsInstallStep(Nth(InstallSteps, r), r)
<1>1. PICK a, p, d, m : /\ a = flpydsk_reset /\ p = <<Out(\h3f7, 0)>>
                        /\ d = flpydsk_drive_data(3, 16, 240) /\ m = flpydsk_control_motor(TRUE)
  OBVIOUS
<1>2. IsList(a, 16) /\ \A r \in 1..16 : IsResetStep(Nth(a, r), r)
  BY <1>1, ResetSteps
<1>3. IsList(p, 1) /\ Nth(p, 1) = Out(\h3f7, 0)
  <2>1. Out(\h3f7, 0) \in Operation
    BY Operations
  <2>. QED
    BY <1>1, <2>1, OneOperation
<1>4. /\ IsList(d, 3) /\ Nth(d, 3) = Send(SPECIFY)
      /\ Nth(d, 2) = Send(48) /\ Nth(d, 1) = Send(32)
  <2>1. PICK bytes : bytes = <<SPECIFY, 48, 32>>
    OBVIOUS
  <2>2. IsBytes(bytes, 3) /\ bytes[1] = SPECIFY /\ bytes[2] = 48 /\ bytes[3] = 32
    BY <2>1 DEF SPECIFY, IsBytes
  <2>3. d = Sends(bytes)
    <3>1. (3 % 16) * 16 + (240 % 16) = 48 /\ 16 * 2 = 32
      OBVIOUS
    <3>. QED
      BY <1>1, <2>1, <3>1 DEF flpydsk_drive_data
  <2>. QED
    BY <2>2, <2>3, SendSteps
<1>5. IsList(m, 2) /\ Nth(m, 2) = Out(DOR, 28) /\ Nth(m, 1) = Do("sleep")
  BY <1>1, MotorSteps
<1>6. PICK b : b = a \o p
  OBVIOUS
<1>7. /\ IsList(b, 17) /\ Nth(b, 1) = Out(\h3f7, 0)
      /\ \A r \in 2..17 : Nth(b, r) = Nth(a, r - 1)
  BY <1>2, <1>3, <1>6, NthOfTwo
<1>8. PICK e : e = b \o d
  OBVIOUS
<1>9. /\ IsList(e, 20)
      /\ Nth(e, 3) = Send(SPECIFY) /\ Nth(e, 2) = Send(48) /\ Nth(e, 1) = Send(32)
      /\ \A r \in 4..20 : Nth(e, r) = Nth(b, r - 3)
  BY <1>4, <1>7, <1>8, NthOfTwo
<1>10. PICK s : s = e \o m
  OBVIOUS
<1>11. /\ IsList(s, 22) /\ Nth(s, 2) = Out(DOR, 28) /\ Nth(s, 1) = Do("sleep")
       /\ \A r \in 3..22 : Nth(s, r) = Nth(e, r - 2)
  <2>1. IsList(e, 20) /\ IsList(m, 2) /\ s = e \o m
    BY <1>5, <1>9, <1>10
  <2>2. /\ IsList(s, 22) /\ \A r \in 1..2 : Nth(s, r) = Nth(m, r)
        /\ \A r \in 3..22 : Nth(s, r) = Nth(e, r - 2)
    BY <2>1, NthOfTwo
  <2>. QED
    BY <1>5, <2>2
<1>12. s = InstallSteps
  BY <1>1, <1>6, <1>8, <1>10 DEF InstallSteps
<1>13. ASSUME NEW r \in 1..22
       PROVE  IsInstallStep(Nth(s, r), r)
  <2>1. CASE r <= 6
    BY <1>7, <1>9, <1>11, <2>1 DEF IsInstallStep
  <2>2. CASE r > 6
    <3>1. Nth(s, r) = Nth(a, r - 6)
      BY <1>7, <1>9, <1>11, <2>2
    <3>. QED
      BY <1>2, <2>2, <3>1 DEF IsInstallStep
  <2>. QED
    BY <2>1, <2>2
<1>. QED
  BY <1>11, <1>12, <1>13

\* The r-th last step of dma_initialize_floppy.
IsDmaStep(o, r) ==
  /\ r = 12 => o = Out(\h0d, 255)
  /\ r = 11 => o = Out(\h0a, 2)
  /\ r = 10 => o = Out(\h0c, 170)
  /\ r = 9 => o = Out(\h0a, 2)
  /\ r = 8 => o = Out(\h0b, 70)
  /\ r = 7 => o = Out(\hdc, 255)
  /\ r = 6 => o = Out(4, 0)
  /\ r = 5 => o = Out(4, 0)
  /\ r = 4 => o = Out(\h81, 2)
  /\ r = 3 => o = Out(5, 255)
  /\ r = 2 => o = Out(5, 1)
  /\ r = 1 => o = Out(\hdc, 255)

LEMMA DmaSteps ==
  /\ IsList(dma_initialize_floppy(DMA_BUFFER, SectorSize), 12)
  /\ \A r \in 1..12 : IsDmaStep(Nth(dma_initialize_floppy(DMA_BUFFER, SectorSize), r), r)
<1>1. PICK o0, o1, o2, o3, o4, o5, o6, o7, o8, o9, o10, o11 :
        /\ o0 = Out(\h0d, 255) /\ o1 = Out(\h0a, 2) /\ o2 = Out(\h0c, 170) /\ o3 = Out(\h0a, 2)
        /\ o4 = Out(\h0b, 70) /\ o5 = Out(\hdc, 255) /\ o6 = Out(4, 0) /\ o7 = Out(4, 0)
        /\ o8 = Out(\h81, 2) /\ o9 = Out(5, 255) /\ o10 = Out(5, 1) /\ o11 = Out(\hdc, 255)
  OBVIOUS
<1>2. /\ o0 \in Operation /\ o1 \in Operation /\ o2 \in Operation /\ o3 \in Operation
      /\ o4 \in Operation /\ o5 \in Operation /\ o6 \in Operation /\ o7 \in Operation
      /\ o8 \in Operation /\ o9 \in Operation /\ o10 \in Operation /\ o11 \in Operation
  BY <1>1, Operations
<1>3. PICK a1, a2, a3, c1, c2, c3, a5, a6, a7, a8 :
        /\ a1 = <<o0>> /\ a2 = <<o1>> /\ a3 = <<o2>> /\ c1 = <<o3>> /\ c2 = <<o4>> /\ c3 = <<o5>>
        /\ a5 = <<o6, o7>> /\ a6 = <<o8>> /\ a7 = <<o9, o10>> /\ a8 = <<o11>>
  OBVIOUS
<1>4. /\ IsList(a1, 1) /\ Nth(a1, 1) = o0
      /\ IsList(a2, 1) /\ Nth(a2, 1) = o1
      /\ IsList(a3, 1) /\ Nth(a3, 1) = o2
      /\ IsList(c1, 1) /\ Nth(c1, 1) = o3 /\ IsList(c2, 1) /\ Nth(c2, 1) = o4
      /\ IsList(c3, 1) /\ Nth(c3, 1) = o5
      /\ IsList(a5, 2) /\ Nth(a5, 2) = o6 /\ Nth(a5, 1) = o7
      /\ IsList(a6, 1) /\ Nth(a6, 1) = o8
      /\ IsList(a7, 2) /\ Nth(a7, 2) = o9 /\ Nth(a7, 1) = o10
      /\ IsList(a8, 1) /\ Nth(a8, 1) = o11
  BY <1>2, <1>3, OneOperation, TwoOperations, ThreeOperations
<1>5. PICK c4, a4, b2, b3, b4, b5, b6, b7, b8 :
        /\ c4 = c1 \o c2 /\ a4 = c4 \o c3
        /\ b2 = a1 \o a2 /\ b3 = b2 \o a3 /\ b4 = b3 \o a4 /\ b5 = b4 \o a5
        /\ b6 = b5 \o a6 /\ b7 = b6 \o a7 /\ b8 = b7 \o a8
  OBVIOUS
<1>6. IsList(b2, 2) /\ Nth(b2, 2) = o0 /\ Nth(b2, 1) = o1
  BY <1>4, <1>5, NthOfTwo
<1>7. /\ IsList(b3, 3) /\ Nth(b3, 1) = o2
      /\ \A r \in 2..3 : Nth(b3, r) = Nth(b2, r - 1)
  BY <1>4, <1>5, <1>6, NthOfTwo
<1>15. IsList(c4, 2) /\ Nth(c4, 2) = o3 /\ Nth(c4, 1) = o4
  BY <1>4, <1>5, NthOfTwo
<1>16. IsList(a4, 3) /\ Nth(a4, 3) = o3 /\ Nth(a4, 2) = o4 /\ Nth(a4, 1) = o5
  BY <1>4, <1>5, <1>15, NthOfTwo
<1>8. /\ IsList(b4, 6) /\ Nth(b4, 3) = o3 /\ Nth(b4, 2) = o4 /\ Nth(b4, 1) = o5
      /\ \A r \in 4..6 : Nth(b4, r) = Nth(b3, r - 3)
  <2>1. IsList(b3, 3) /\ b4 = b3 \o a4
    BY <1>5, <1>7
  <2>. QED
    BY <1>16, <2>1, NthOfTwo
<1>9. /\ IsList(b5, 8) /\ Nth(b5, 2) = o6 /\ Nth(b5, 1) = o7
      /\ \A r \in 3..8 : Nth(b5, r) = Nth(b4, r - 2)
  <2>1. IsList(a5, 2) /\ Nth(a5, 2) = o6 /\ Nth(a5, 1) = o7 /\ b5 = b4 \o a5 /\ IsList(b4, 6)
    BY <1>4, <1>5, <1>8
  <2>. QED
    BY <2>1, NthOfTwo
<1>10. /\ IsList(b6, 9) /\ Nth(b6, 1) = o8
       /\ \A r \in 2..9 : Nth(b6, r) = Nth(b5, r - 1)
  <2>1. IsList(a6, 1) /\ Nth(a6, 1) = o8 /\ b6 = b5 \o a6 /\ IsList(b5, 8)
    BY <1>4, <1>5, <1>9
  <2>. QED
    BY <2>1, NthOfTwo
<1>11. /\ IsList(b7, 11) /\ Nth(b7, 2) = o9 /\ Nth(b7, 1) = o10
       /\ \A r \in 3..11 : Nth(b7, r) = Nth(b6, r - 2)
  <2>1. IsList(a7, 2) /\ Nth(a7, 2) = o9 /\ Nth(a7, 1) = o10 /\ b7 = b6 \o a7 /\ IsList(b6, 9)
    BY <1>4, <1>5, <1>10
  <2>. QED
    BY <2>1, NthOfTwo
<1>12. /\ IsList(b8, 12) /\ Nth(b8, 1) = o11
       /\ \A r \in 2..12 : Nth(b8, r) = Nth(b7, r - 1)
  <2>1. IsList(a8, 1) /\ Nth(a8, 1) = o11 /\ b8 = b7 \o a8
    BY <1>4, <1>5
  <2>. QED
    BY <1>11, <2>1, NthOfTwo
<1>13. b8 = dma_initialize_floppy(DMA_BUFFER, SectorSize)
  <2>1. a1 = dma_reset /\ a3 = dma_reset_flipflop(2) /\ a8 = dma_unmask_all
    BY <1>1, <1>3 DEF dma_reset, dma_reset_flipflop, dma_unmask_all, MasterClearReg, FlipflopReg,
                      UnmaskAllReg
  <2>2. a2 = dma_mask_channel(2)
    BY <1>1, <1>3 DEF dma_mask_channel, ChanmaskReg
  <2>3. a4 = dma_set_read(2)
    <3>2. c1 = dma_mask_channel(2) /\ c3 = dma_unmask_all
      BY <1>1, <1>3 DEF dma_mask_channel, ChanmaskReg, dma_unmask_all, UnmaskAllReg
    <3>3. o4 = Out(ModeReg(0), (2 - 4 * 0) + (ReadTransfer + TransferSingle))
      BY <1>1 DEF ModeReg, ReadTransfer, TransferSingle
    <3>4. dma_set_read(2) = c1 \o <<o4>> \o c3
      <4>1. (IF 2 < 4 THEN 0 ELSE 1) = 0
        OBVIOUS
      <4>. QED
        BY <3>2, <3>3, <4>1 DEF dma_set_read, dma_set_mode
    <3>. QED
      BY <1>3, <1>5, <3>4
  <2>4. a5 = dma_set_address(2, 0, 0) /\ a6 = dma_set_external_page_register(2, 2)
    BY <1>1, <1>3 DEF dma_set_address, dma_set_external_page_register, AddrReg, PageReg
  <2>5. a7 = dma_set_count(2, 255, 1)
    BY <1>1, <1>3 DEF dma_set_count, CountReg, AddrReg
  <2>6. /\ Byte(131072, 0) = 0 /\ Byte(131072, 1) = 0 /\ Byte(131072, 2) = 2
        /\ Byte(511, 0) = 255 /\ Byte(511, 1) = 1
    BY DEF Byte
  <2>7. ~(131072 \div 256 ^ 3 # 0 \/ 511 \div 256 ^ 2 # 0
          \/ ((131072 % (256 ^ 2)) + 511) \div 256 ^ 2 # 0)
    OBVIOUS
  <2>8. DMA_BUFFER = 131072 /\ SectorSize - 1 = 511
    BY DEF DMA_BUFFER, SectorSize
  <2>9. dma_initialize_floppy(DMA_BUFFER, SectorSize)
        = dma_reset \o dma_mask_channel(2) \o dma_reset_flipflop(2) \o dma_set_read(2)
          \o dma_set_address(2, Byte(131072, 0), Byte(131072, 1))
          \o dma_set_external_page_register(2, Byte(131072, 2))
          \o dma_set_count(2, Byte(511, 0), Byte(511, 1)) \o dma_unmask_all
    <3>1. PICK a, l : a = 131072 /\ l = 511
      OBVIOUS
    <3>2. DMA_BUFFER = a /\ SectorSize - 1 = l
      BY <2>8, <3>1
    <3>3. ~(a \div 256 ^ 3 # 0 \/ l \div 256 ^ 2 # 0
            \/ ((a % (256 ^ 2)) + l) \div 256 ^ 2 # 0)
      BY <2>7, <3>1
    <3>4. dma_initialize_floppy(DMA_BUFFER, SectorSize)
          = dma_reset \o dma_mask_channel(2) \o dma_reset_flipflop(2) \o dma_set_read(2)
            \o dma_set_address(2, Byte(a, 0), Byte(a, 1))
            \o dma_set_external_page_register(2, Byte(a, 2))
            \o dma_set_count(2, Byte(l, 0), Byte(l, 1)) \o dma_unmask_all
      BY <3>2, <3>3 DEF dma_initialize_floppy
    <3>. QED
      BY <3>1, <3>4
  <2>10. /\ a5 = dma_set_address(2, Byte(131072, 0), Byte(131072, 1))
         /\ a6 = dma_set_external_page_register(2, Byte(131072, 2))
         /\ a7 = dma_set_count(2, Byte(511, 0), Byte(511, 1))
    BY <2>4, <2>5, <2>6
  <2>11. dma_initialize_floppy(DMA_BUFFER, SectorSize)
         = a1 \o a2 \o a3 \o a4 \o a5 \o a6 \o a7 \o a8
    BY <2>1, <2>2, <2>3, <2>9, <2>10
  <2>. QED
    BY <1>5, <2>11
<1>14. ASSUME NEW r \in 1..12
       PROVE  IsDmaStep(Nth(b8, r), r)
  BY <1>1, <1>6, <1>7, <1>8, <1>9, <1>10, <1>11, <1>12 DEF IsDmaStep
<1>. QED
  BY <1>12, <1>13, <1>14

Places == [head : 0..255, track : 0..255, sector : 0..255]

LEMMA Commands ==
  /\ IsBytes(CalibrateCommand, 2)
  /\ \A c \in Places : IsBytes(SeekCommand(c), 3) /\ IsBytes(ReadCommand(c), 9)
<1>1. CALIBRATE \in Int /\ SEEK \in Int /\ READ_SECT \in Int /\ current_drive \in Int
      /\ FLPY_SECTORS_PER_TRACK \in Int
  BY DEF CALIBRATE, SEEK, READ_SECT, current_drive, FLPY_SECTORS_PER_TRACK
<1>2. IsBytes(CalibrateCommand, 2)
  BY <1>1 DEF CalibrateCommand, IsBytes
<1>3. ASSUME NEW c \in Places
      PROVE  IsBytes(SeekCommand(c), 3) /\ IsBytes(ReadCommand(c), 9)
  <2>1. c.head \in 0..255 /\ c.track \in 0..255 /\ c.sector \in 0..255
    BY DEF Places
  <2>2. PICK a, b : /\ a = c.head * 4 + current_drive
                    /\ b = IF c.sector + 1 >= FLPY_SECTORS_PER_TRACK THEN FLPY_SECTORS_PER_TRACK
                           ELSE c.sector + 1
    OBVIOUS
  <2>3. a \in Int /\ b \in Int /\ c.head \in Int /\ c.track \in Int /\ c.sector \in Int
    BY <1>1, <2>1, <2>2
  <2>4. IsBytes(SeekCommand(c), 3)
    BY <1>1, <2>2, <2>3 DEF SeekCommand, IsBytes
  <2>5. IsBytes(<<READ_SECT, a, c.track, c.head, c.sector, 2, b, 27, 255>>, 9)
    BY <1>1, <2>3 DEF IsBytes
  <2>. QED
    BY <2>2, <2>4, <2>5 DEF ReadCommand
<1>. QED
  BY <1>2, <1>3

\* The r-th last step of what flpydsk_read_sector does once it is on the track.
IsReadStep(o, c, r) ==
  /\ r \in 40..51 => IsDmaStep(o, r - 39)
  /\ r \in 31..39 => o = Send(ReadCommand(c)[40 - r])
  /\ r = 30 => o = Do("wait")
  /\ r = 29 => o = Do("clear")
  /\ r \in 22..28 => o = Do("read")
  /\ r = 21 => o = Send(CHECK_INT)
  /\ r = 20 => o = Do("read")
  /\ r = 19 => o = Do("read_cyl")
  /\ r = 18 => o = Out(DOR, 4)
  /\ r = 17 => o = Do("sleep")
  /\ r <= 16 => IsResetStep(o, r)

LEMMA ReadIs ==
  ASSUME NEW c \in Places
  PROVE  /\ IsList(ReadSteps(c), 51)
         /\ \A r \in 1..51 : IsReadStep(Nth(ReadSteps(c), r), c, r)
<1>1. PICK a1, a2, a3, a4, a5, a6, a7 :
        /\ a1 = dma_initialize_floppy(DMA_BUFFER, SectorSize) /\ a2 = Sends(ReadCommand(c))
        /\ a3 = flpydsk_wait_irq /\ a4 = Repeat(7, <<Do("read")>>) /\ a5 = flpydsk_check_int
        /\ a6 = flpydsk_control_motor(FALSE) /\ a7 = flpydsk_reset
  OBVIOUS
<1>3. IsList(a1, 12) /\ \A r \in 1..12 : IsDmaStep(Nth(a1, r), r)
  BY <1>1, DmaSteps
<1>4. IsList(a2, 9) /\ \A r \in 1..9 : Nth(a2, r) = Send(ReadCommand(c)[9 - r + 1])
  <2>1. IsBytes(ReadCommand(c), 9)
    BY Commands
  <2>. QED
    BY <1>1, <2>1, SendSteps
<1>20. PICK b2 : b2 = a1 \o a2
  OBVIOUS
<1>5. /\ IsList(b2, 21)
      /\ \A r \in 1..9 : Nth(b2, r) = Nth(a2, r)
      /\ \A r \in 10..21 : Nth(b2, r) = Nth(a1, r - 9)
  <2>1. IsList(a1, 12) /\ IsList(a2, 9)
    BY <1>3, <1>4
  <2>2. /\ IsList(a1 \o a2, 21)
        /\ \A r \in 1..9 : Nth(a1 \o a2, r) = Nth(a2, r)
        /\ \A r \in 10..21 : Nth(a1 \o a2, r) = Nth(a1, r - 9)
    BY <2>1, NthOfTwo
  <2>. QED
    BY <1>20, <1>4, <2>2
<1>6. IsList(a3, 2) /\ Nth(a3, 2) = Do("wait") /\ Nth(a3, 1) = Do("clear")
  BY <1>1, WaitSteps
<1>21. PICK b3 : b3 = b2 \o a3
  OBVIOUS
<1>7. /\ IsList(b3, 23) /\ Nth(b3, 2) = Do("wait") /\ Nth(b3, 1) = Do("clear")
      /\ \A r \in 3..23 : Nth(b3, r) = Nth(b2, r - 2)
  <2>1. IsList(b2, 21) /\ IsList(a3, 2)
    BY <1>5, <1>6
  <2>2. /\ IsList(b2 \o a3, 23)
        /\ \A r \in 1..2 : Nth(b2 \o a3, r) = Nth(a3, r)
        /\ \A r \in 3..23 : Nth(b2 \o a3, r) = Nth(b2, r - 2)
    BY <2>1, NthOfTwo
  <2>. QED
    BY <1>21, <1>6, <2>2
<1>8. IsList(a4, 7) /\ \A r \in 1..7 : Nth(a4, r) = Do("read")
  BY <1>1, SevenReads
<1>22. PICK b4 : b4 = b3 \o a4
  OBVIOUS
<1>9. /\ IsList(b4, 30) /\ \A r \in 1..7 : Nth(b4, r) = Do("read")
      /\ \A r \in 8..30 : Nth(b4, r) = Nth(b3, r - 7)
  <2>1. IsList(b3, 23) /\ IsList(a4, 7)
    BY <1>7, <1>8
  <2>2. /\ IsList(b3 \o a4, 30)
        /\ \A r \in 1..7 : Nth(b3 \o a4, r) = Nth(a4, r)
        /\ \A r \in 8..30 : Nth(b3 \o a4, r) = Nth(b3, r - 7)
    BY <2>1, NthOfTwo
  <2>. QED
    BY <1>22, <1>8, <2>2
<1>10. /\ IsList(a5, 3) /\ Nth(a5, 3) = Send(CHECK_INT)
       /\ Nth(a5, 2) = Do("read") /\ Nth(a5, 1) = Do("read_cyl")
  BY <1>1, CheckSteps
<1>23. PICK b5 : b5 = b4 \o a5
  OBVIOUS
<1>11. /\ IsList(b5, 33) /\ Nth(b5, 3) = Send(CHECK_INT)
       /\ Nth(b5, 2) = Do("read") /\ Nth(b5, 1) = Do("read_cyl")
       /\ \A r \in 4..33 : Nth(b5, r) = Nth(b4, r - 3)
  <2>1. IsList(b4, 30) /\ IsList(a5, 3)
    BY <1>9, <1>10
  <2>2. /\ IsList(b4 \o a5, 33)
        /\ \A r \in 1..3 : Nth(b4 \o a5, r) = Nth(a5, r)
        /\ \A r \in 4..33 : Nth(b4 \o a5, r) = Nth(b4, r - 3)
    BY <2>1, NthOfTwo
  <2>. QED
    BY <1>23, <1>10, <2>2
<1>12. IsList(a6, 2) /\ Nth(a6, 2) = Out(DOR, 4) /\ Nth(a6, 1) = Do("sleep")
  BY <1>1, MotorSteps
<1>24. PICK b6 : b6 = b5 \o a6
  OBVIOUS
<1>13. /\ IsList(b6, 35) /\ Nth(b6, 2) = Out(DOR, 4) /\ Nth(b6, 1) = Do("sleep")
       /\ \A r \in 3..35 : Nth(b6, r) = Nth(b5, r - 2)
  <2>1. IsList(b5, 33) /\ IsList(a6, 2)
    BY <1>11, <1>12
  <2>2. /\ IsList(b5 \o a6, 35)
        /\ \A r \in 1..2 : Nth(b5 \o a6, r) = Nth(a6, r)
        /\ \A r \in 3..35 : Nth(b5 \o a6, r) = Nth(b5, r - 2)
    BY <2>1, NthOfTwo
  <2>. QED
    BY <1>24, <1>12, <2>2
<1>14. IsList(a7, 16) /\ \A r \in 1..16 : IsResetStep(Nth(a7, r), r)
  BY <1>1, ResetSteps
<1>25. PICK b7 : b7 = b6 \o a7
  OBVIOUS
<1>15. /\ IsList(b7, 51) /\ \A r \in 1..16 : Nth(b7, r) = Nth(a7, r)
       /\ \A r \in 17..51 : Nth(b7, r) = Nth(b6, r - 16)
  <2>1. IsList(b6, 35) /\ IsList(a7, 16)
    BY <1>13, <1>14
  <2>2. /\ IsList(b6 \o a7, 51)
        /\ \A r \in 1..16 : Nth(b6 \o a7, r) = Nth(a7, r)
        /\ \A r \in 17..51 : Nth(b6 \o a7, r) = Nth(b6, r - 16)
    BY <2>1, NthOfTwo
  <2>. QED
    BY <1>25, <1>14, <2>2
<1>16. b7 = ReadSteps(c)
  <2>1. b5 = flpydsk_read_sector_imp(c)
    BY <1>1, <1>20, <1>21, <1>22, <1>23 DEF flpydsk_read_sector_imp
  <2>. QED
    BY <1>1, <1>24, <1>25, <2>1 DEF ReadSteps
<1>17. ASSUME NEW r \in 1..51
       PROVE  IsReadStep(Nth(b7, r), c, r)
  <2>1. CASE r <= 16
    BY <1>14, <1>15, <2>1 DEF IsReadStep
  <2>2. CASE r \in 17..21
    BY <1>11, <1>13, <1>15, <2>2 DEF IsReadStep
  <2>3. CASE r \in 22..28
    <3>1. Nth(b7, r) = Nth(b4, r - 21)
      BY <1>11, <1>13, <1>15, <2>3
    <3>. QED
      BY <1>9, <2>3, <3>1 DEF IsReadStep
  <2>4. CASE r \in 29..51
    <3>1. Nth(b7, r) = Nth(b3, r - 28)
      BY <1>9, <1>11, <1>13, <1>15, <2>4
    <3>2. CASE r <= 30
      BY <1>7, <2>4, <3>1, <3>2 DEF IsReadStep
    <3>3. CASE r \in 31..39
      <4>1. Nth(b7, r) = Nth(a2, r - 30)
        BY <1>5, <1>7, <3>1, <3>3
      <4>2. 9 - (r - 30) + 1 = 40 - r
        OBVIOUS
      <4>. QED
        BY <1>4, <3>3, <4>1, <4>2 DEF IsReadStep
    <3>4. CASE r >= 40
      <4>1. Nth(b7, r) = Nth(a1, r - 39)
        BY <1>5, <1>7, <3>1, <3>4
      <4>. QED
        BY <1>3, <3>4, <4>1 DEF IsReadStep
    <3>. QED
      BY <3>2, <3>3, <3>4
  <2>. QED
    BY <2>1, <2>2, <2>3, <2>4
<1>. QED
  BY <1>15, <1>16, <1>17

LEMMA TheRest ==
  ASSUME NEW n \in Nat, NEW steps, IsList(steps, n), NEW s \in Seq(Operation), s # <<>>,
         IsRest(s, steps)
  PROVE  /\ Len(s) \in 1..n /\ Head(s) = Nth(steps, Len(s)) /\ Len(Tail(s)) = Len(s) - 1
         /\ Tail(s) \in Seq(Operation) /\ IsRest(Tail(s), steps)
<1>1. PICK r : r = Len(s)
  OBVIOUS
<1>2. r \in Nat /\ r # 0 /\ Len(steps) = n
  BY <1>1 DEF IsList
<1>3. r <= n /\ \A i \in 1..r : s[i] = steps[n - r + i]
  BY <1>1, <1>2 DEF IsRest
<1>4. Head(s) = s[1] /\ Tail(s) \in Seq(Operation) /\ Len(Tail(s)) = r - 1
  BY <1>1, <1>2
<1>5. \A i \in 1..(r - 1) : Tail(s)[i] = s[i + 1]
  BY <1>1, <1>2
<1>6. Head(s) = Nth(steps, r)
  BY <1>2, <1>3, <1>4 DEF Nth
<1>7. \A i \in 1..(r - 1) : Tail(s)[i] = steps[n - (r - 1) + i]
  <2>1. ASSUME NEW i \in 1..(r - 1)
        PROVE  Tail(s)[i] = steps[n - (r - 1) + i]
    <3>1. i + 1 \in 1..r /\ n - r + (i + 1) = n - (r - 1) + i
      BY <1>2
    <3>. QED
      BY <1>3, <1>5, <3>1
  <2>. QED
    BY <2>1
<1>8. IsRest(Tail(s), steps)
  <2>1. r - 1 <= n
    BY <1>2, <1>3
  <2>. QED
    BY <1>2, <1>4, <1>7, <2>1 DEF IsRest
<1>. QED
  BY <1>1, <1>2, <1>3, <1>4, <1>6, <1>8

LEMMA NoRest ==
  ASSUME NEW n \in Nat, NEW steps, IsList(steps, n)
  PROVE  IsRest(<<>>, steps) /\ IsRest(steps, steps) /\ steps \in Seq(Operation) /\ Len(steps) = n
BY DEF IsRest, IsList

-----------------------------------------------------------------------------
(* What an operation does, whichever action does it.                       *)

Perform ==
  WritePort \/ flpydsk_send_command \/ flpydsk_read_data \/ SeeIrq \/ ClearIrq \/ Sleep

WritesDor(v) == fdc' = WrittenDor(v) /\ dma' = dma /\ cyl' = cyl /\ irq_received' = irq_received
Writes(p, v) ==
  dma' = Write8237(dma, p, v) /\ fdc' = fdc /\ cyl' = cyl /\ irq_received' = irq_received
SendsByte(b) ==
  /\ IF Expects THEN fdc' = Received(b % 256) ELSE fdc' = fdc
  /\ dma' = dma /\ cyl' = cyl /\ irq_received' = irq_received
ReadsByte(name) ==
  /\ dma' = dma /\ irq_received' = irq_received
  /\ \E byte \in 0..255 :
       /\ \/ /\ fdc.result # <<>> /\ byte = Head(fdc.result)
             /\ fdc' = [fdc EXCEPT !.result = Tail(@)]
          \/ (fdc.job # "none" \/ ~Working) /\ fdc' = fdc
          \/ Expects /\ fdc' = fdc
       /\ cyl' = IF name = "read_cyl" THEN byte ELSE cyl
Waits == irq_received /\ fdc' = fdc /\ dma' = dma /\ cyl' = cyl /\ irq_received' = irq_received
Clears == irq_received' = FALSE /\ fdc' = fdc /\ dma' = dma /\ cyl' = cyl
Sleeps == fdc' = fdc /\ dma' = dma /\ cyl' = cyl /\ irq_received' = irq_received

LEMMA Performed ==
  ASSUME Timeouts = FALSE, Perform
  PROVE  /\ \A v : Head(todo) = Out(DOR, v) => WritesDor(v)
         /\ \A p, v : p # DOR /\ Head(todo) = Out(p, v) => Writes(p, v)
         /\ \A b : Head(todo) = Send(b) => SendsByte(b)
         /\ \A n \in {"read", "read_cyl"} : Head(todo) = Do(n) => ReadsByte(n)
         /\ Head(todo) = Do("wait") => Waits
         /\ Head(todo) = Do("clear") => Clears
         /\ Head(todo) = Do("sleep") => Sleeps
<1>1. /\ \A p, v : Out(p, v).op = "out" /\ Out(p, v).port = p /\ Out(p, v).value = v
      /\ \A b : Send(b).op = "send" /\ Send(b).value = b % 256
      /\ \A n : Do(n).op = n
  BY DEF Out, Send, Do
<1>2. CASE WritePort
  <2>1. Head(todo).op = "out"
    BY <1>2 DEF WritePort, Does
  <2>2. ASSUME NEW p, NEW v, Head(todo) = Out(p, v)
        PROVE  IF p = DOR THEN WritesDor(v) ELSE Writes(p, v)
    BY <1>1, <1>2, <2>2 DEF WritePort, WritesDor, Writes
  <2>. QED
    BY <1>1, <2>1, <2>2
<1>3. CASE flpydsk_send_command
  <2>1. Head(todo).op = "send"
    BY <1>3 DEF flpydsk_send_command, Does
  <2>2. ASSUME NEW b, Head(todo) = Send(b)
        PROVE  SendsByte(b)
    BY <1>1, <1>3, <2>2 DEF flpydsk_send_command, SendsByte
  <2>. QED
    BY <1>1, <2>1, <2>2
<1>4. CASE flpydsk_read_data
  <2>1. Head(todo).op \in {"read", "read_cyl"}
    BY <1>4 DEF flpydsk_read_data, Does
  <2>2. ASSUME NEW n \in {"read", "read_cyl"}, Head(todo) = Do(n)
        PROVE  ReadsByte(n)
    <3>1. Head(todo).op = n
      BY <1>1, <2>2
    <3>2. PICK byte \in 0..255 :
            /\ \/ /\ fdc.result # <<>> /\ byte = Head(fdc.result)
                  /\ fdc' = [fdc EXCEPT !.result = Tail(@)]
               \/ byte = 0 /\ (Timeouts \/ fdc.job # "none" \/ ~Working) /\ fdc' = fdc
               \/ Expects /\ byte \in {0, 255} /\ fdc' = fdc
            /\ cyl' = IF Head(todo).op = "read_cyl" THEN byte ELSE cyl
      BY <1>4 DEF flpydsk_read_data
    <3>3. dma' = dma /\ irq_received' = irq_received
      BY <1>4 DEF flpydsk_read_data
    <3>4. cyl' = IF n = "read_cyl" THEN byte ELSE cyl
      BY <3>1, <3>2
    <3>5. \/ /\ fdc.result # <<>> /\ byte = Head(fdc.result)
             /\ fdc' = [fdc EXCEPT !.result = Tail(@)]
          \/ (fdc.job # "none" \/ ~Working) /\ fdc' = fdc
          \/ Expects /\ fdc' = fdc
      BY <3>2
    <3>. QED
      BY <3>3, <3>4, <3>5 DEF ReadsByte
  <2>. QED
    BY <1>1, <2>1, <2>2
<1>5. CASE SeeIrq
  BY <1>1, <1>5 DEF SeeIrq, Does, Waits
<1>6. CASE ClearIrq
  BY <1>1, <1>6 DEF ClearIrq, Does, Clears
<1>7. CASE Sleep
  BY <1>1, <1>7 DEF Sleep, Does, Sleeps
<1>. QED
  BY <1>2, <1>3, <1>4, <1>5, <1>6, <1>7 DEF Perform

LEMMA PerformKeeps ==
  ASSUME Perform
  PROVE  /\ todo # <<>> /\ todo' = Tail(todo)
         /\ pc' = pc /\ chs' = chs /\ tries' = tries /\ ret' = ret /\ memory' = memory
         /\ failed' = failed
BY DEF Perform, WritePort, flpydsk_send_command, flpydsk_read_data, SeeIrq, ClearIrq, Sleep,
       Does, SameDriver

-----------------------------------------------------------------------------
(* What it does to the controller.                                         *)

LEMMA Bits ==
  /\ ~Bit(0, 4) /\ Bit(4, 4) /\ Bit(12, 4) /\ Bit(28, 4)
  /\ Bit(12, 8) /\ Bit(28, 8) /\ ~Bit(4, 16) /\ ~Bit(12, 16)
BY DEF Bit

Typed(f) == f \in FdcStates /\ Len(f.args) <= 9

Fdc(d, a, r, j, s, t) ==
  [dor |-> d, args |-> a, result |-> r, job |-> j, sense |-> s, track |-> t]

AreFields(d, a, r, j, s, t) ==
  /\ d \in 0..255 /\ a \in Seq(0..255) /\ r \in Seq(0..255)
  /\ j \in {"none", "command", "reset"} /\ s \in 0..4 /\ t \in 0..LastTrack
Consists(f, d, a, r, j, s, t) ==
  f.dor = d /\ f.args = a /\ f.result = r /\ f.job = j /\ f.sense = s /\ f.track = t

LEMMA AnFdc ==
  ASSUME NEW d, NEW a, NEW r, NEW j, NEW s, NEW t, AreFields(d, a, r, j, s, t)
  PROVE  Fdc(d, a, r, j, s, t) \in FdcStates /\ Consists(Fdc(d, a, r, j, s, t), d, a, r, j, s, t)
BY DEF FdcStates, Fdc, AreFields, Consists

LEMMA FdcFields ==
  ASSUME NEW f \in FdcStates
  PROVE  /\ f = Fdc(f.dor, f.args, f.result, f.job, f.sense, f.track)
         /\ f.dor \in 0..255 /\ f.args \in Seq(0..255) /\ f.result \in Seq(0..255)
         /\ f.job \in {"none", "command", "reset"} /\ f.sense \in 0..4
         /\ f.track \in 0..LastTrack
BY DEF FdcStates, Fdc

LEMMA DorEffect ==
  ASSUME Typed(fdc), NEW v \in {0, 4, 12, 28}, WritesDor(v)
  PROVE  /\ Typed(fdc') /\ fdc'.dor = v
         /\ dma' = dma /\ cyl' = cyl /\ irq_received' = irq_received
         /\ v = 0 => Settled(fdc', 0)
         /\ fdc.dor = 0 /\ v = 12 /\ Settled(fdc, 0) => Resets(fdc')
         /\ fdc.dor \in {4, 12, 28} /\ v # 0 => \A n : Settled(fdc, n) => Settled(fdc', n)
<1>1. fdc \in FdcStates /\ Len(fdc.args) <= 9
  BY DEF Typed
<1>0. /\ fdc = Fdc(fdc.dor, fdc.args, fdc.result, fdc.job, fdc.sense, fdc.track)
      /\ fdc.dor \in 0..255 /\ fdc.args \in Seq(0..255) /\ fdc.result \in Seq(0..255)
      /\ fdc.job \in {"none", "command", "reset"} /\ fdc.sense \in 0..4
      /\ fdc.track \in 0..LastTrack
  BY <1>1, FdcFields
<1>2. fdc' = WrittenDor(v) /\ dma' = dma /\ cyl' = cyl /\ irq_received' = irq_received
  BY DEF WritesDor
<1>3. CASE v = 0
  <2>1. fdc' = [fdc EXCEPT !.dor = 0, !.args = <<>>, !.result = <<>>, !.job = "none", !.sense = 0]
    BY <1>2, <1>3, Bits DEF WrittenDor
  <2>2. fdc' = Fdc(0, <<>>, <<>>, "none", 0, fdc.track)
    BY <1>0, <2>1 DEF Fdc
  <2>3. /\ fdc'.dor = 0 /\ fdc'.args = <<>> /\ fdc'.result = <<>> /\ fdc'.job = "none"
        /\ fdc'.sense = 0 /\ fdc' \in FdcStates
    <3>1. AreFields(0, <<>>, <<>>, "none", 0, fdc.track)
      BY <1>0, <2>2 DEF AreFields
    <3>2. fdc' \in FdcStates /\ Consists(fdc', 0, <<>>, <<>>, "none", 0, fdc.track)
      BY <3>1, <2>2, AnFdc
    <3>. QED
      BY <1>0, <2>2, <3>2 DEF Consists
  <2>. QED
    BY <1>2, <1>3, <2>3 DEF Settled, Typed
<1>4. CASE v # 0
  <2>0. PICK j : j = IF Bit(fdc.dor, 4) THEN fdc.job ELSE "reset"
    OBVIOUS
  <2>1. fdc' = [fdc EXCEPT !.dor = v, !.job = j]
    BY <1>2, <1>4, <2>0, Bits DEF WrittenDor, Working
  <2>6. fdc' = Fdc(v, fdc.args, fdc.result, j, fdc.sense, fdc.track)
    BY <1>0, <2>1 DEF Fdc
  <2>7. v \in 0..255 /\ j \in {"none", "command", "reset"}
    BY <1>0, <2>0
  <2>2. /\ fdc'.dor = v /\ fdc'.args = fdc.args /\ fdc'.result = fdc.result
        /\ fdc'.job = IF Bit(fdc.dor, 4) THEN fdc.job ELSE "reset"
        /\ fdc'.sense = fdc.sense /\ fdc'.track = fdc.track /\ fdc' \in FdcStates
    <3>1. AreFields(v, fdc.args, fdc.result, j, fdc.sense, fdc.track)
      BY <1>0, <2>0, <2>6, <2>7 DEF AreFields
    <3>2. fdc' \in FdcStates /\ Consists(fdc', v, fdc.args, fdc.result, j, fdc.sense, fdc.track)
      BY <3>1, <2>6, AnFdc
    <3>. QED
      BY <1>0, <2>0, <2>6, <2>7, <3>2 DEF Consists
  <2>3. Typed(fdc')
    BY <1>1, <2>2 DEF Typed
  <2>4. fdc.dor \in {4, 12, 28} => \A n : Settled(fdc, n) => Settled(fdc', n)
    BY <2>2, Bits DEF Settled
  <2>5. fdc.dor = 0 /\ Settled(fdc, 0) => Resets(fdc')
    <3>1. Settled(fdc, 0) => fdc.args = <<>> /\ fdc.result = <<>> /\ fdc.sense = 0
      <4>1. fdc.sense \in Nat /\ Len(fdc.result) \in Nat /\ fdc.result \in Seq(0..255)
        BY <1>1 DEF FdcStates
      <4>. QED
        BY <4>1 DEF Settled
    <3>. QED
      BY <2>2, <3>1, Bits DEF Resets
  <2>. QED
    BY <1>2, <1>4, <2>2, <2>3, <2>4, <2>5
<1>. QED
  BY <1>3, <1>4

IsCommand(command, k) == IsBytes(command, k) /\ Needs(command[1] % 256) = k
Begins(command, cmd) == command[1] % 256 = cmd

LEMMA CommandEffect ==
  ASSUME Typed(fdc), Bit(fdc.dor, 4), NEW k \in 1..9, NEW command, IsCommand(command, k),
         NEW cmd \in {READ_SECT, SEEK, CALIBRATE, SPECIFY}, Begins(command, cmd), NEW n \in 0..(k - 1), Gets(fdc, command, n),
         SendsByte(command[n + 1])
  PROVE  /\ Typed(fdc') /\ fdc'.dor = fdc.dor
         /\ dma' = dma /\ cyl' = cyl /\ irq_received' = irq_received
         /\ n + 1 < k => Gets(fdc', command, n + 1)
         /\ n + 1 = k /\ cmd \in {READ_SECT, SEEK, CALIBRATE} => Executes(fdc', command)
         /\ n + 1 = k /\ cmd = SPECIFY => Settled(fdc', 0)
<1>1. /\ fdc \in FdcStates /\ fdc.job = "none" /\ fdc.result = <<>> /\ fdc.sense = 0
      /\ Len(fdc.args) = n /\ \A i \in 1..n : fdc.args[i] = command[i] % 256
  BY DEF Typed, Gets, Given
<1>2. PICK byte, a : byte = command[n + 1] % 256 /\ a = Append(fdc.args, byte)
  OBVIOUS
<1>3. byte \in 0..255
  <2>1. PICK b : b = command[n + 1]
    OBVIOUS
  <2>2. b \in Int
    BY <2>1 DEF IsBytes, IsCommand
  <2>3. b % 256 \in 0..255
    BY <2>2
  <2>. QED
    BY <1>2, <2>1, <2>3
<1>0. /\ fdc = Fdc(fdc.dor, fdc.args, fdc.result, fdc.job, fdc.sense, fdc.track)
      /\ fdc.dor \in 0..255 /\ fdc.args \in Seq(0..255) /\ fdc.result \in Seq(0..255)
      /\ fdc.job \in {"none", "command", "reset"} /\ fdc.sense \in 0..4
      /\ fdc.track \in 0..LastTrack
  BY <1>1, FdcFields
<1>5. /\ a \in Seq(0..255) /\ Len(a) = n + 1
      /\ \A i \in 1..(n + 1) : a[i] = command[i] % 256
  BY <1>0, <1>1, <1>2, <1>3
<1>15. a[1] = cmd /\ Needs(cmd) = k
  BY <1>5 DEF IsCommand, Begins
<1>7. fdc' = Received(byte) /\ dma' = dma /\ cyl' = cyl /\ irq_received' = irq_received
  BY <1>1, <1>2 DEF SendsByte, Expects, Working
<1>8. PICK f : f = [fdc EXCEPT !.args = a]
  OBVIOUS
<1>9. /\ f \in FdcStates /\ f.args = a /\ f.dor = fdc.dor /\ f.job = "none" /\ f.result = <<>>
      /\ f.sense = 0
  <2>1. f = Fdc(fdc.dor, a, fdc.result, fdc.job, fdc.sense, fdc.track)
    BY <1>0, <1>8 DEF Fdc
  <2>8. AreFields(fdc.dor, a, fdc.result, fdc.job, fdc.sense, fdc.track)
    BY <1>0, <1>1, <1>5, <2>1 DEF AreFields
  <2>9. f \in FdcStates /\ Consists(f, fdc.dor, a, fdc.result, fdc.job, fdc.sense, fdc.track)
    BY <2>1, <2>8, AnFdc
  <2>. QED
    BY <1>0, <1>1, <1>5, <2>1, <2>9 DEF Consists
<1>10. fdc' = IF n + 1 < k THEN f
              ELSE CASE cmd \in {READ_SECT, SEEK, CALIBRATE} -> [f EXCEPT !.job = "command"]
                     [] cmd = SPECIFY -> [f EXCEPT !.args = <<>>]
                     [] cmd = CHECK_INT -> Sensed(f)
                     [] OTHER -> [f EXCEPT !.args = <<>>, !.result = <<128>>]
  BY <1>2, <1>5, <1>7, <1>8, <1>9, <1>15 DEF Received
<1>11. CASE n + 1 < k
  <2>1. fdc' = f
    BY <1>10, <1>11
  <2>2. Gets(f, command, n + 1)
    BY <1>5, <1>9 DEF Gets, Given
  <2>3. Typed(f)
    BY <1>5, <1>9, <1>11 DEF Typed
  <2>. QED
    BY <1>7, <1>9, <1>11, <2>1, <2>2, <2>3
<1>12. CASE n + 1 = k /\ cmd \in {READ_SECT, SEEK, CALIBRATE}
  <2>1. fdc' = [f EXCEPT !.job = "command"]
    BY <1>10, <1>12 DEF SPECIFY, READ_SECT, SEEK, CALIBRATE, CHECK_INT
  <2>2. fdc' = Fdc(fdc.dor, a, fdc.result, "command", fdc.sense, fdc.track)
    BY <1>0, <1>8, <2>1 DEF Fdc
  <2>3. /\ fdc' \in FdcStates /\ fdc'.dor = fdc.dor /\ fdc'.args = a /\ fdc'.result = <<>>
        /\ fdc'.job = "command" /\ fdc'.sense = 0
    <3>1. AreFields(fdc.dor, a, fdc.result, "command", fdc.sense, fdc.track)
      BY <1>0, <1>1, <1>5, <2>2 DEF AreFields
    <3>2. fdc' \in FdcStates /\ Consists(fdc', fdc.dor, a, fdc.result, "command", fdc.sense, fdc.track)
      BY <3>1, <2>2, AnFdc
    <3>. QED
      BY <1>0, <1>1, <1>5, <2>2, <3>2 DEF Consists
  <2>4. Executes(fdc', command)
    BY <1>5, <1>12, <2>3 DEF Executes, Given, IsBytes, IsCommand
  <2>5. Typed(fdc')
    BY <1>5, <1>12, <2>3 DEF Typed
  <2>6. SPECIFY \notin {READ_SECT, SEEK, CALIBRATE}
    BY DEF SPECIFY, READ_SECT, SEEK, CALIBRATE
  <2>. QED
    BY <1>7, <1>12, <2>3, <2>4, <2>5, <2>6
<1>13. CASE n + 1 = k /\ cmd = SPECIFY
  <2>1. SPECIFY \notin {READ_SECT, SEEK, CALIBRATE}
    BY DEF SPECIFY, READ_SECT, SEEK, CALIBRATE
  <2>2. fdc' = [f EXCEPT !.args = <<>>]
    BY <1>10, <1>13, <2>1 DEF SPECIFY, READ_SECT, SEEK, CALIBRATE, CHECK_INT
  <2>3. fdc' = Fdc(fdc.dor, <<>>, fdc.result, fdc.job, fdc.sense, fdc.track)
    BY <1>0, <1>8, <2>2 DEF Fdc
  <2>4. /\ fdc' \in FdcStates /\ fdc'.dor = fdc.dor /\ fdc'.args = <<>> /\ fdc'.result = <<>>
        /\ fdc'.job = "none" /\ fdc'.sense = 0
    <3>1. AreFields(fdc.dor, <<>>, fdc.result, fdc.job, fdc.sense, fdc.track)
      BY <1>0, <1>1, <2>3 DEF AreFields
    <3>2. fdc' \in FdcStates /\ Consists(fdc', fdc.dor, <<>>, fdc.result, fdc.job, fdc.sense, fdc.track)
      BY <3>1, <2>3, AnFdc
    <3>. QED
      BY <1>0, <1>1, <2>3, <3>2 DEF Consists
  <2>. QED
    BY <1>7, <1>13, <2>1, <2>4 DEF Typed, Settled
<1>. QED
  BY <1>11, <1>12, <1>13

LEMMA TracksAreBytes ==
  ASSUME NEW t, t \in 0..LastTrack
  PROVE  t \in 0..255
<1>1. LastTrack \in 0..255
  BY FloppyAssumption
<1>. QED
  BY <1>1

LEMMA NoLength ==
  ASSUME NEW q, q \in Seq(0..255), Len(q) = 0
  PROVE  q = <<>>
OBVIOUS

LEMMA TailEnds ==
  ASSUME NEW q, q \in Seq(0..255), q # <<>>
  PROVE  /\ Tail(q) \in Seq(0..255) /\ Len(Tail(q)) = Len(q) - 1 /\ Head(q) = q[1]
         /\ Tail(q) # <<>> => Tail(q)[Len(Tail(q))] = q[Len(q)]
<1>1. PICK k, r : k = Len(q) /\ r = Tail(q)
  OBVIOUS
<1>2. k \in Nat \ {0} /\ r \in Seq(0..255) /\ Len(r) = k - 1 /\ Head(q) = q[1]
  BY <1>1
<1>3. \A i \in 1..(k - 1) : r[i] = q[i + 1]
  BY <1>1
<1>4. r # <<>> => k - 1 \in 1..(k - 1) /\ (k - 1) + 1 = k
  BY <1>2
<1>5. r # <<>> => r[k - 1] = q[k]
  BY <1>3, <1>4
<1>. QED
  BY <1>1, <1>2, <1>5

LEMMA CheckEffect ==
  ASSUME Typed(fdc), Bit(fdc.dor, 4), SendsByte(CHECK_INT), NEW n \in 0..12, Settled(fdc, n),
         (n % 3) = 0
  PROVE  /\ Typed(fdc') /\ fdc'.dor = fdc.dor
         /\ dma' = dma /\ cyl' = cyl /\ irq_received' = irq_received
         /\ n > 0 => Settled(fdc', n - 1)
         /\ n = 0 => Reports(fdc', 1)
<1>1. fdc \in FdcStates /\ fdc.job = "none" /\ fdc.args = <<>>
  BY DEF Typed, Settled
<1>2. /\ fdc = Fdc(fdc.dor, fdc.args, fdc.result, fdc.job, fdc.sense, fdc.track)
      /\ fdc.dor \in 0..255 /\ fdc.args \in Seq(0..255) /\ fdc.result \in Seq(0..255)
      /\ fdc.job \in {"none", "command", "reset"} /\ fdc.sense \in 0..4
      /\ fdc.track \in 0..LastTrack
  BY <1>1, FdcFields
<1>3. fdc.result = <<>> /\ 3 * fdc.sense = n
  <2>1. PICK q, s : q = fdc.result /\ s = fdc.sense
    OBVIOUS
  <2>2. PICK k : k = Len(q)
    OBVIOUS
  <2>3. q \in Seq(0..255) /\ s \in 0..4
    BY <1>2, <2>1
  <2>4. k \in Nat
    BY <2>2, <2>3
  <2>5. k <= 2 /\ 3 * s + k = n
    BY <2>1, <2>2 DEF Settled
  <2>6. k = 0
    BY <2>3, <2>4, <2>5
  <2>8. q = <<>>
    BY <2>2, <2>3, <2>6, NoLength
  <2>7. q = <<>> /\ 3 * s = n
    BY <2>3, <2>5, <2>6, <2>8
  <2>. QED
    BY <2>1, <2>7
<1>4. PICK a : a = <<CHECK_INT>>
  OBVIOUS
<1>5. Append(fdc.args, CHECK_INT % 256) = a /\ Len(a) = 1 /\ a[1] = CHECK_INT
  BY <1>1, <1>4 DEF CHECK_INT
<1>6. PICK f : f = [fdc EXCEPT !.args = a]
  OBVIOUS
<1>7. f = Fdc(fdc.dor, a, fdc.result, fdc.job, fdc.sense, fdc.track)
  BY <1>2, <1>6 DEF Fdc
<1>8. f.args = a /\ f.sense = fdc.sense /\ f.track = fdc.track
  BY <1>7 DEF Fdc
<1>9. fdc' = Received(CHECK_INT % 256) /\ dma' = dma /\ cyl' = cyl /\ irq_received' = irq_received
  BY <1>1, <1>3 DEF SendsByte, Expects, Working
<1>10. fdc' = Sensed(f)
  <2>1. Needs(a[1]) = 1
    BY <1>5 DEF Needs, CHECK_INT, READ_SECT, SEEK, CALIBRATE, SPECIFY
  <2>2. fdc' = IF 1 < 1 THEN f
               ELSE CASE a[1] \in {READ_SECT, SEEK, CALIBRATE} -> [f EXCEPT !.job = "command"]
                      [] a[1] = SPECIFY -> [f EXCEPT !.args = <<>>]
                      [] a[1] = CHECK_INT -> Sensed(f)
                      [] OTHER -> [f EXCEPT !.args = <<>>, !.result = <<128>>]
    BY <1>5, <1>6, <1>8, <1>9, <2>1 DEF Received
  <2>. QED
    BY <1>5, <2>2 DEF CHECK_INT, READ_SECT, SEEK, CALIBRATE, SPECIFY
<1>12. CASE n = 0
  <2>1. fdc.sense = 0
    BY <1>2, <1>3, <1>12
  <2>2. fdc' = [f EXCEPT !.args = <<>>, !.result = <<128>>]
    BY <1>8, <1>10, <2>1 DEF Sensed
  <2>3. fdc' = Fdc(fdc.dor, <<>>, <<128>>, fdc.job, 0, fdc.track)
    BY <1>7, <2>1, <2>2 DEF Fdc
  <2>4. AreFields(fdc.dor, <<>>, <<128>>, fdc.job, 0, fdc.track)
    BY <1>2 DEF AreFields
  <2>5. fdc' \in FdcStates /\ Consists(fdc', fdc.dor, <<>>, <<128>>, fdc.job, 0, fdc.track)
    BY <2>3, <2>4, AnFdc
  <2>6. Typed(fdc') /\ fdc'.dor = fdc.dor /\ Reports(fdc', 1)
    BY <1>1, <2>5 DEF Typed, Reports, Consists
  <2>. QED
    BY <1>9, <1>12, <2>6
<1>13. CASE n > 0
  <2>1. fdc.sense # 0 /\ fdc.sense - 1 \in 0..4 /\ 3 * (fdc.sense - 1) + 2 = n - 1
    BY <1>2, <1>3, <1>13
  <2>2. PICK s, r : s = fdc.sense - 1 /\ r = <<32, fdc.track>>
    OBVIOUS
  <2>3. fdc' = [f EXCEPT !.args = <<>>, !.sense = s, !.result = r]
    BY <1>8, <1>10, <2>1, <2>2 DEF Sensed
  <2>4. fdc' = Fdc(fdc.dor, <<>>, r, fdc.job, s, fdc.track)
    BY <1>7, <2>3 DEF Fdc
  <2>5. fdc.track \in 0..255
    BY <1>2, TracksAreBytes
  <2>6. r \in Seq(0..255) /\ Len(r) = 2 /\ r[2] = fdc.track /\ s \in 0..4
    BY <2>1, <2>2, <2>5
  <2>7. AreFields(fdc.dor, <<>>, r, fdc.job, s, fdc.track)
    BY <1>2, <2>6 DEF AreFields
  <2>8. fdc' \in FdcStates /\ Consists(fdc', fdc.dor, <<>>, r, fdc.job, s, fdc.track)
    BY <2>4, <2>7, AnFdc
  <2>9. Typed(fdc') /\ fdc'.dor = fdc.dor /\ Settled(fdc', n - 1)
    BY <1>1, <2>1, <2>2, <2>6, <2>8 DEF Typed, Settled, Consists
  <2>. QED
    BY <1>9, <1>13, <2>9
<1>. QED
  BY <1>12, <1>13

LEMMA ReadEffect ==
  ASSUME Typed(fdc), Bit(fdc.dor, 4), NEW name, ReadsByte(name), cyl \in 0..255,
         NEW n \in 0..12, Settled(fdc, n) \/ Reports(fdc, n), Reports(fdc, n) \/ n = 0 \/ (n % 3) # 0
  PROVE  /\ Typed(fdc') /\ fdc'.dor = fdc.dor
         /\ dma' = dma /\ irq_received' = irq_received /\ cyl' \in 0..255
         /\ Settled(fdc, n) /\ n > 0 /\ (n % 3) # 0 => Settled(fdc', n - 1)
         /\ Settled(fdc, n) /\ (n % 3) = 1 /\ name = "read_cyl" => cyl' = fdc'.track
         /\ n = 0 => Settled(fdc', 0)
         /\ Reports(fdc, n) /\ n > 0 => Reports(fdc', n - 1)
<1>1. /\ fdc \in FdcStates /\ Len(fdc.args) <= 9 /\ fdc.job = "none" /\ fdc.args = <<>>
  BY DEF Typed, Settled, Reports
<1>2. /\ fdc = Fdc(fdc.dor, fdc.args, fdc.result, fdc.job, fdc.sense, fdc.track)
      /\ fdc.dor \in 0..255 /\ fdc.args \in Seq(0..255) /\ fdc.result \in Seq(0..255)
      /\ fdc.job \in {"none", "command", "reset"} /\ fdc.sense \in 0..4
      /\ fdc.track \in 0..LastTrack
  BY <1>1, FdcFields
<1>3. PICK byte \in 0..255 :
        /\ \/ /\ fdc.result # <<>> /\ byte = Head(fdc.result)
              /\ fdc' = [fdc EXCEPT !.result = Tail(fdc.result)]
           \/ fdc.result = <<>> /\ fdc' = fdc
        /\ cyl' = IF name = "read_cyl" THEN byte ELSE cyl
  BY <1>1 DEF ReadsByte, Working, Expects
<1>4. dma' = dma /\ irq_received' = irq_received /\ cyl' \in 0..255
  BY <1>3 DEF ReadsByte
<1>5. CASE fdc.result = <<>>
  <2>1. fdc' = fdc /\ Len(fdc.result) = 0
    BY <1>3, <1>5
  <2>2. n = 0
    <3>1. Settled(fdc, n) => (n % 3) = 0
      <4>1. PICK s : s = fdc.sense
        OBVIOUS
      <4>2. s \in 0..4 /\ (Settled(fdc, n) => n = 3 * s)
        BY <1>2, <2>1, <4>1 DEF Settled
      <4>3. ((3 * s) % 3) = 0
        BY <4>2
      <4>. QED
        BY <4>2, <4>3
    <3>2. Reports(fdc, n) => n = 0
      BY <2>1 DEF Reports
    <3>. QED
      BY <3>1, <3>2
  <2>3. fdc.sense = 0
    <3>1. Settled(fdc, n) => 0 = 3 * fdc.sense
      BY <1>2, <2>1, <2>2 DEF Settled
    <3>2. Reports(fdc, n) => fdc.sense = 0
      BY DEF Reports
    <3>. QED
      BY <1>2, <3>1, <3>2
  <2>4. Settled(fdc, 0)
    BY <1>1, <1>5, <2>1, <2>3 DEF Settled
  <2>. QED
    BY <1>4, <2>1, <2>2, <2>4
<1>6. CASE fdc.result # <<>>
  <2>1. PICK q : q = fdc.result
    OBVIOUS
  <2>2. PICK k : k = Len(q)
    OBVIOUS
  <2>3. /\ q \in Seq(0..255) /\ k \in Nat \ {0} /\ Len(q) = k /\ Tail(q) \in Seq(0..255)
        /\ Len(Tail(q)) = k - 1 /\ Head(q) = q[1]
    BY <1>2, <1>6, <2>1, <2>2, TailEnds
  <2>4. fdc' = [fdc EXCEPT !.result = Tail(q)] /\ byte = q[1]
    BY <1>3, <1>6, <2>1, <2>3
  <2>5. fdc' = Fdc(fdc.dor, fdc.args, Tail(q), fdc.job, fdc.sense, fdc.track)
    BY <1>2, <2>4 DEF Fdc
  <2>6. AreFields(fdc.dor, fdc.args, Tail(q), fdc.job, fdc.sense, fdc.track)
    BY <1>2, <2>3 DEF AreFields
  <2>7. /\ fdc' \in FdcStates
        /\ Consists(fdc', fdc.dor, fdc.args, Tail(q), fdc.job, fdc.sense, fdc.track)
    BY <2>5, <2>6, AnFdc
  <2>8. Typed(fdc') /\ fdc'.dor = fdc.dor
    BY <1>1, <2>7 DEF Typed, Consists
  <2>9. Reports(fdc, n) => n > 0 /\ Reports(fdc', n - 1)
    <3>1. Reports(fdc, n) => k = n /\ fdc.sense = 0
      BY <2>1, <2>3 DEF Reports
    <3>. QED
      BY <1>1, <2>3, <2>7, <3>1 DEF Reports, Consists
  <2>10. ASSUME Settled(fdc, n)
         PROVE  /\ n > 0 /\ Settled(fdc', n - 1)
                /\ (n % 3) = 1 => q[1] = fdc'.track
    <3>1. k <= 2 /\ 3 * fdc.sense + k = n /\ q[k] = fdc.track
      BY <1>6, <2>1, <2>3, <2>10 DEF Settled
    <3>2. PICK s : s = fdc.sense
      OBVIOUS
    <3>3. s \in 0..4 /\ k \in 1..2 /\ 3 * s + k = n
      BY <1>2, <2>3, <3>1, <3>2
    <3>4. n > 0 /\ 3 * s + (k - 1) = n - 1 /\ ((n % 3) = 1 => k = 1)
      BY <3>3
    <3>5. fdc'.track = fdc.track
      BY <2>7 DEF Consists
    <3>6. Tail(q) # <<>> => Tail(q)[Len(Tail(q))] = fdc.track
      BY <1>6, <2>1, <2>3, <3>1, TailEnds
    <3>7. Settled(fdc', n - 1)
      BY <1>1, <2>3, <2>7, <3>2, <3>3, <3>4, <3>6 DEF Settled, Consists
    <3>. QED
      BY <3>1, <3>4, <3>5, <3>7
  <2>11. n > 0
    BY <2>9, <2>10
  <2>. QED
    BY <1>3, <1>4, <2>4, <2>8, <2>9, <2>10, <2>11
<1>. QED
  BY <1>5, <1>6

LEMMA SettledZero ==
  ASSUME NEW f, Typed(f)
  PROVE  /\ Settled(f, 0) <=>
              f.job = "none" /\ f.args = <<>> /\ f.result = <<>> /\ f.sense = 0
         /\ Reports(f, 0) => Settled(f, 0)
         /\ \A command : Settled(f, 0) => Gets(f, command, 0)
<1>1. PICK q, s : q = f.result /\ s = f.sense
  OBVIOUS
<1>2. q \in Seq(0..255) /\ s \in 0..4
  BY <1>1, FdcFields DEF Typed
<1>3. PICK k : k = Len(q)
  OBVIOUS
<1>4. k \in Nat /\ (k = 0 => q = <<>>)
  BY <1>2, <1>3, NoLength
<1>5. k <= 2 /\ 3 * s + k = 0 => k = 0 /\ s = 0
  BY <1>2, <1>4
<1>6. Settled(f, 0) => f.job = "none" /\ f.args = <<>> /\ q = <<>> /\ s = 0
  <2>1. Settled(f, 0) => k <= 2 /\ 3 * s + k = 0
    BY <1>1, <1>3 DEF Settled
  <2>. QED
    BY <1>4, <1>5, <2>1 DEF Settled
<1>7. f.job = "none" /\ f.args = <<>> /\ q = <<>> /\ s = 0 => Settled(f, 0)
  BY <1>1, <1>2 DEF Settled
<1>8. Reports(f, 0) => f.job = "none" /\ f.args = <<>> /\ q = <<>> /\ s = 0
  BY <1>1, <1>3, <1>4 DEF Reports
<1>9. \A command : Settled(f, 0) => Gets(f, command, 0)
  BY <1>1, <1>6 DEF Gets, Given
<1>. QED
  BY <1>1, <1>6, <1>7, <1>8, <1>9

\* The positions of InReset and InHeadMoves one by one.
LEMMA ResetPhases ==
  ASSUME NEW f, NEW irq \in BOOLEAN
  PROVE  /\ InReset(f, irq, 16) <=> ~irq /\ Settled(f, 0)
         /\ InReset(f, irq, 15) <=> ~irq /\ Settled(f, 0) /\ f.dor = 0
         /\ InReset(f, irq, 14) <=> f.dor = 12 /\ (irq => Settled(f, 12)) /\ (~irq => Resets(f))
         /\ InReset(f, irq, 13) <=> irq /\ Settled(f, 12) /\ f.dor = 12
         /\ \A r \in 0..12 : InReset(f, irq, r) <=> ~irq /\ Settled(f, r) /\ f.dor = 12
BY DEF InReset

LEMMA HeadPhases ==
  ASSUME NEW f, NEW irq \in BOOLEAN, NEW k \in 2..3, NEW command, IsBytes(command, k)
  PROVE  /\ \A r \in 6..(k + 5) : InHeadMoves(f, irq, command, r) <=>
                                  ~irq /\ Gets(f, command, k + 5 - r) /\ f.dor = 28
         /\ InHeadMoves(f, irq, command, 5) <=>
              f.dor = 28 /\ (irq => Settled(f, 3)) /\ (~irq => Executes(f, command))
         /\ InHeadMoves(f, irq, command, 4) <=> irq /\ Settled(f, 3) /\ f.dor = 28
         /\ \A r \in 0..3 : InHeadMoves(f, irq, command, r) <=> ~irq /\ Settled(f, r) /\ f.dor = 28
<1>1. Len(command) = k
  BY DEF IsBytes
<1>2. ASSUME NEW r \in 6..(k + 5)
      PROVE  InHeadMoves(f, irq, command, r) <=> ~irq /\ Gets(f, command, k + 5 - r) /\ f.dor = 28
  BY <1>1 DEF InHeadMoves
<1>. QED
  BY <1>2 DEF InHeadMoves

LEMMA ResetEffect ==
  ASSUME Timeouts = FALSE, Typed(fdc), cyl \in 0..255, irq_received \in BOOLEAN, Perform,
         NEW r \in 1..16, IsResetStep(Head(todo), r), InReset(fdc, irq_received, r)
  PROVE  /\ Typed(fdc') /\ cyl' \in 0..255 /\ irq_received' \in BOOLEAN /\ dma' = dma
         /\ InReset(fdc', irq_received', r - 1)
<1>1. CASE r = 16
  <2>0. Head(todo) = Out(DOR, 0)
    BY <1>1 DEF IsResetStep
  <2>1. WritesDor(0) /\ ~irq_received
    BY <1>1, <2>0, Performed, ResetPhases
  <2>2. /\ Typed(fdc') /\ fdc'.dor = 0 /\ dma' = dma /\ cyl' = cyl
        /\ irq_received' = irq_received /\ Settled(fdc', 0)
    BY <2>1, DorEffect
  <2>. QED
    BY <1>1, <2>1, <2>2, ResetPhases
<1>2. CASE r = 15
  <2>0. Head(todo) = Out(DOR, 12)
    BY <1>2 DEF IsResetStep
  <2>1. WritesDor(12) /\ ~irq_received /\ Settled(fdc, 0) /\ fdc.dor = 0
    BY <1>2, <2>0, Performed, ResetPhases
  <2>2. /\ Typed(fdc') /\ fdc'.dor = 12 /\ dma' = dma /\ cyl' = cyl
        /\ irq_received' = irq_received /\ Resets(fdc')
    BY <2>1, DorEffect
  <2>. QED
    BY <1>2, <2>1, <2>2, ResetPhases
<1>3. CASE r = 14
  <2>0. Head(todo) = Do("wait")
    BY <1>3 DEF IsResetStep
  <2>1. Waits /\ fdc.dor = 12 /\ (irq_received => Settled(fdc, 12))
    BY <1>3, <2>0, Performed, ResetPhases
  <2>2. /\ irq_received' /\ irq_received' \in BOOLEAN /\ fdc' = fdc /\ dma' = dma /\ cyl' = cyl
        /\ Settled(fdc, 12)
    BY <2>1 DEF Waits
  <2>3. InReset(fdc', irq_received', 13)
    BY <2>1, <2>2, ResetPhases
  <2>4. r - 1 = 13 /\ r # 1
    BY <1>3
  <2>6. Typed(fdc') /\ cyl' \in 0..255
    BY <2>2
  <2>. QED
    BY <2>2, <2>3, <2>4, <2>6
<1>4. CASE r = 13
  <2>0. Head(todo) = Do("clear")
    BY <1>4 DEF IsResetStep
  <2>1. Clears /\ fdc.dor = 12 /\ Settled(fdc, 12)
    BY <1>4, <2>0, Performed, ResetPhases
  <2>2. /\ ~irq_received' /\ irq_received' \in BOOLEAN /\ fdc' = fdc /\ dma' = dma /\ cyl' = cyl
    BY <2>1 DEF Clears
  <2>5. 12 \in 0..12
    OBVIOUS
  <2>3. InReset(fdc', irq_received', 12)
    BY <2>1, <2>2, <2>5, ResetPhases
  <2>4. r - 1 = 12 /\ r # 1
    BY <1>4
  <2>6. Typed(fdc') /\ cyl' \in 0..255
    BY <2>2
  <2>. QED
    BY <2>2, <2>3, <2>4, <2>6
<1>5. CASE r <= 12
  <2>1. fdc.dor = 12 /\ ~irq_received /\ Settled(fdc, r) /\ Bit(fdc.dor, 4)
    BY <1>5, Bits, ResetPhases
  <2>2. (r % 3) \in {0, 1, 2}
    OBVIOUS
  <2>3. /\ Typed(fdc') /\ fdc'.dor = fdc.dor /\ dma' = dma /\ cyl' \in 0..255
        /\ irq_received' = irq_received /\ Settled(fdc', r - 1)
    <3>1. CASE (r % 3) = 0
      <4>1. SendsByte(CHECK_INT)
        <5>1. Head(todo) = Send(CHECK_INT)
          BY <1>5, <3>1 DEF IsResetStep
        <5>. QED
          BY <5>1, Performed
      <4>. QED
        BY <1>5, <2>1, <3>1, <4>1, CheckEffect
    <3>2. CASE (r % 3) # 0
      <4>1. PICK name : ReadsByte(name)
        <5>1. Head(todo) = Do("read") \/ Head(todo) = Do("read_cyl")
          BY <1>5, <2>2, <3>2 DEF IsResetStep
        <5>. QED
          BY <5>1, Performed
      <4>. QED
        BY <1>5, <2>1, <3>2, <4>1, ReadEffect
    <3>. QED
      BY <3>1, <3>2
  <2>. QED
    BY <1>5, <2>1, <2>3, ResetPhases
<1>. QED
  BY <1>1, <1>2, <1>3, <1>4, <1>5

LEMMA HeadEffect ==
  ASSUME Timeouts = FALSE, Typed(fdc), cyl \in 0..255, irq_received \in BOOLEAN, Perform,
         NEW k \in 2..3, NEW command, IsCommand(command, k), NEW cmd \in {SEEK, CALIBRATE},
         Begins(command, cmd), NEW r \in 1..(k + 5), IsHeadStep(Head(todo), command, r),
         InHeadMoves(fdc, irq_received, command, r)
  PROVE  /\ Typed(fdc') /\ cyl' \in 0..255 /\ irq_received' \in BOOLEAN /\ dma' = dma
         /\ InHeadMoves(fdc', irq_received', command, r - 1)
         /\ r = 1 => cyl' = fdc'.track
<1>1. IsBytes(command, k) /\ Len(command) = k
  BY DEF IsCommand, IsBytes
<1>2. fdc.dor = 28 /\ Bit(fdc.dor, 4)
  BY Bits DEF InHeadMoves
<1>3. CASE r > 5
  <2>1. PICK n : n = k + 5 - r
    OBVIOUS
  <2>2. n \in 0..(k - 1) /\ n + 1 = k + 6 - r
    BY <1>3, <2>1
  <2>3. SendsByte(command[n + 1]) /\ Gets(fdc, command, n) /\ ~irq_received
    <3>1. Head(todo) = Send(command[n + 1])
      BY <1>1, <1>3, <2>2 DEF IsHeadStep
    <3>2. r \in 6..(k + 5)
      BY <1>3
    <3>3. Gets(fdc, command, k + 5 - r) /\ ~irq_received
      BY <1>1, <3>2, HeadPhases
    <3>. QED
      BY <2>1, <3>1, <3>3, Performed
  <2>4. /\ Typed(fdc') /\ fdc'.dor = fdc.dor
        /\ dma' = dma /\ cyl' = cyl /\ irq_received' = irq_received
        /\ n + 1 < k => Gets(fdc', command, n + 1)
        /\ n + 1 = k => Executes(fdc', command)
    <3>1. k \in 1..9 /\ cmd \in {READ_SECT, SEEK, CALIBRATE, SPECIFY}
      OBVIOUS
    <3>. QED
      BY <1>2, <2>2, <2>3, <3>1, CommandEffect
  <2>5. /\ r - 1 > 5 => n + 1 < k /\ n + 1 = k + 5 - (r - 1)
        /\ ~(r - 1 > 5) => r - 1 = 5 /\ n + 1 = k
    BY <1>3, <2>1
  <2>6. r # 1 /\ r - 1 \in 5..(k + 5)
    BY <1>3
  <2>7. InHeadMoves(fdc', irq_received', command, r - 1)
    BY <1>1, <1>2, <2>3, <2>4, <2>5, <2>6, HeadPhases
  <2>. QED
    BY <2>3, <2>4, <2>6, <2>7
<1>4. CASE r = 5
  <2>0. Head(todo) = Do("wait")
    BY <1>4 DEF IsHeadStep
  <2>1. Waits /\ (irq_received => Settled(fdc, 3))
    BY <1>1, <1>4, <2>0, Performed, HeadPhases
  <2>2. /\ irq_received' /\ irq_received' \in BOOLEAN /\ fdc' = fdc /\ dma' = dma /\ cyl' = cyl
        /\ Settled(fdc, 3)
    BY <2>1 DEF Waits
  <2>3. InHeadMoves(fdc', irq_received', command, 4)
    BY <1>1, <1>2, <2>2, HeadPhases
  <2>4. r - 1 = 4 /\ r # 1
    BY <1>4
  <2>6. Typed(fdc') /\ cyl' \in 0..255
    BY <2>2
  <2>. QED
    BY <2>2, <2>3, <2>4, <2>6
<1>5. CASE r = 4
  <2>0. Head(todo) = Do("clear")
    BY <1>5 DEF IsHeadStep
  <2>1. Clears /\ Settled(fdc, 3)
    BY <1>1, <1>5, <2>0, Performed, HeadPhases
  <2>2. /\ ~irq_received' /\ irq_received' \in BOOLEAN /\ fdc' = fdc /\ dma' = dma /\ cyl' = cyl
    BY <2>1 DEF Clears
  <2>5. 3 \in 0..3
    OBVIOUS
  <2>3. InHeadMoves(fdc', irq_received', command, 3)
    BY <1>1, <1>2, <2>1, <2>2, <2>5, HeadPhases
  <2>4. r - 1 = 3 /\ r # 1
    BY <1>5
  <2>6. Typed(fdc') /\ cyl' \in 0..255
    BY <2>2
  <2>. QED
    BY <2>2, <2>3, <2>4, <2>6
<1>6. CASE r <= 3
  <2>0. r \in 0..3
    BY <1>6
  <2>1. ~irq_received /\ Settled(fdc, r)
    BY <1>1, <2>0, HeadPhases
  <2>2. /\ Typed(fdc') /\ fdc'.dor = fdc.dor /\ dma' = dma /\ cyl' \in 0..255
        /\ irq_received' = irq_received /\ Settled(fdc', r - 1)
        /\ r = 1 => cyl' = fdc'.track
    <3>1. CASE r = 3
      <4>1. SendsByte(CHECK_INT)
        BY <3>1, Performed DEF IsHeadStep
      <4>2. (3 % 3) = 0 /\ 3 \in 0..12 /\ cyl' \in 0..255
        BY <4>1 DEF SendsByte
      <4>. QED
        BY <1>2, <2>1, <3>1, <4>1, <4>2, CheckEffect
    <3>2. CASE r = 2
      <4>1. ReadsByte("read")
        BY <3>2, Performed DEF IsHeadStep
      <4>2. (2 % 3) # 0 /\ 2 \in 0..12
        OBVIOUS
      <4>. QED
        BY <1>2, <2>1, <3>2, <4>1, <4>2, ReadEffect
    <3>3. CASE r = 1
      <4>1. ReadsByte("read_cyl")
        BY <3>3, Performed DEF IsHeadStep
      <4>2. (1 % 3) = 1 /\ 1 \in 0..12
        OBVIOUS
      <4>. QED
        BY <1>2, <2>1, <3>3, <4>1, <4>2, ReadEffect
    <3>. QED
      BY <1>6, <3>1, <3>2, <3>3
  <2>. QED
    BY <1>1, <1>2, <1>6, <2>1, <2>2, HeadPhases
<1>. QED
  BY <1>3, <1>4, <1>5, <1>6

LEMMA InstallPhases ==
  ASSUME NEW f, NEW irq \in BOOLEAN
  PROVE  /\ \A r \in 7..22 : InInstall(f, irq, r) <=> InReset(f, irq, r - 6)
         /\ InInstall(f, irq, 6) <=> ~irq /\ Settled(f, 0) /\ f.dor = 12
         /\ \A r \in 3..5 : InInstall(f, irq, r) <=>
                            ~irq /\ Gets(f, <<SPECIFY, 48, 32>>, 5 - r) /\ f.dor = 12
         /\ InInstall(f, irq, 2) <=> ~irq /\ Settled(f, 0) /\ f.dor = 12
         /\ InInstall(f, irq, 1) <=> ~irq /\ Settled(f, 0) /\ f.dor = 28
         /\ InInstall(f, irq, 0) <=> ~irq /\ Settled(f, 0) /\ f.dor = 28
<1>1. ASSUME NEW r \in 7..22
      PROVE  InInstall(f, irq, r) <=> InReset(f, irq, r - 6)
  BY DEF InInstall
<1>2. ASSUME NEW r \in 3..5
      PROVE  InInstall(f, irq, r) <=> ~irq /\ Gets(f, <<SPECIFY, 48, 32>>, 5 - r) /\ f.dor = 12
  BY DEF InInstall
<1>. QED
  BY <1>1, <1>2 DEF InInstall

LEMMA SpecifyIs ==
  /\ IsCommand(<<SPECIFY, 48, 32>>, 3) /\ Begins(<<SPECIFY, 48, 32>>, SPECIFY)
  /\ SPECIFY \in {READ_SECT, SEEK, CALIBRATE, SPECIFY}
<1>1. PICK s : s = <<SPECIFY, 48, 32>>
  OBVIOUS
<1>2. s \in Seq(Int) /\ Len(s) = 3 /\ s[1] = 3
  BY <1>1 DEF SPECIFY
<1>3. 3 % 256 = 3
  OBVIOUS
<1>4. Needs(3) = 3
  BY DEF Needs, SPECIFY, READ_SECT, SEEK, CALIBRATE
<1>5. Needs(s[1] % 256) = 3 /\ s[1] % 256 = 3
  BY <1>2, <1>3, <1>4
<1>. QED
  BY <1>1, <1>2, <1>5 DEF IsCommand, IsBytes, Begins, SPECIFY

LEMMA InstallEffect ==
  ASSUME Timeouts = FALSE, Typed(fdc), cyl \in 0..255, irq_received \in BOOLEAN, Perform,
         NEW r \in 1..22, IsInstallStep(Head(todo), r), InInstall(fdc, irq_received, r)
  PROVE  /\ Typed(fdc') /\ cyl' \in 0..255 /\ irq_received' \in BOOLEAN /\ dma' = dma
         /\ InInstall(fdc', irq_received', r - 1)
<1>1. CASE r > 6
  <2>1. r \in 7..22 /\ r - 6 \in 1..16
    BY <1>1
  <2>2. IsResetStep(Head(todo), r - 6)
    BY <1>1 DEF IsInstallStep
  <2>3. InReset(fdc, irq_received, r - 6)
    BY <2>1, InstallPhases
  <2>4. /\ Typed(fdc') /\ cyl' \in 0..255 /\ irq_received' \in BOOLEAN /\ dma' = dma
        /\ InReset(fdc', irq_received', (r - 6) - 1)
    BY <2>1, <2>2, <2>3, ResetEffect
  <2>5. CASE r = 7
    <3>1. (r - 6) - 1 = 0 /\ r - 1 = 6 /\ 0 \in 0..12
      BY <2>5
    <3>2. InReset(fdc', irq_received', 0)
      BY <2>4, <3>1
    <3>3. ~irq_received' /\ Settled(fdc', 0) /\ fdc'.dor = 12
      BY <2>4, <3>1, <3>2, ResetPhases
    <3>4. InInstall(fdc', irq_received', 6)
      BY <2>4, <3>3, InstallPhases
    <3>. QED
      BY <2>4, <3>1, <3>4
  <2>6. CASE r > 7
    <3>1. r - 1 \in 7..22 /\ (r - 1) - 6 = (r - 6) - 1
      BY <2>6
    <3>2. InReset(fdc', irq_received', (r - 1) - 6)
      BY <2>4, <3>1
    <3>3. InInstall(fdc', irq_received', r - 1)
      BY <2>4, <3>1, <3>2, InstallPhases
    <3>. QED
      BY <2>4, <3>3
  <2>. QED
    BY <2>1, <2>5, <2>6
<1>2. CASE r = 6
  <2>1. Head(todo) = Out(\h3f7, 0) /\ \h3f7 # DOR
    BY <1>2 DEF IsInstallStep, DOR
  <2>2. Writes(\h3f7, 0)
    <3>1. PICK p : p = \h3f7
      OBVIOUS
    <3>2. p # DOR /\ Head(todo) = Out(p, 0)
      BY <2>1, <3>1
    <3>3. Writes(p, 0)
      BY <3>2, Performed
    <3>. QED
      BY <3>1, <3>3
  <2>3. Write8237(dma, \h3f7, 0) = dma
    BY DEF Write8237
  <2>4. fdc' = fdc /\ dma' = dma /\ cyl' = cyl /\ irq_received' = irq_received
    BY <2>2, <2>3 DEF Writes
  <2>5. ~irq_received /\ Settled(fdc, 0) /\ fdc.dor = 12
    BY <1>2, InstallPhases
  <2>6. Gets(fdc, <<SPECIFY, 48, 32>>, 0)
    BY <2>5, SettledZero
  <2>7. 5 \in 3..5 /\ 5 - 5 = 0
    OBVIOUS
  <2>8. InInstall(fdc, irq_received, 5)
    BY <2>5, <2>6, <2>7, InstallPhases
  <2>9. r - 1 = 5
    BY <1>2
  <2>. QED
    BY <2>4, <2>8, <2>9
<1>3. CASE r \in 3..5
  <2>1. PICK n, s : n = 5 - r /\ s = <<SPECIFY, 48, 32>>
    OBVIOUS
  <2>2. n \in 0..2 /\ (n = 0 <=> r = 5) /\ (n = 1 <=> r = 4) /\ (n = 2 <=> r = 3)
    BY <1>3, <2>1
  <2>3. s[1] = SPECIFY /\ s[2] = 48 /\ s[3] = 32
    BY <2>1
  <2>4. Head(todo) = Send(s[n + 1])
    <3>1. CASE n = 0
      BY <2>2, <2>3, <3>1 DEF IsInstallStep
    <3>2. CASE n = 1
      BY <2>2, <2>3, <3>2 DEF IsInstallStep
    <3>3. CASE n = 2
      BY <2>2, <2>3, <3>3 DEF IsInstallStep
    <3>. QED
      BY <2>2, <3>1, <3>2, <3>3
  <2>5. SendsByte(s[n + 1])
    BY <2>4, Performed
  <2>6. ~irq_received /\ Gets(fdc, s, n) /\ fdc.dor = 12 /\ Bit(fdc.dor, 4)
    BY <1>3, <2>1, Bits, InstallPhases
  <2>7. IsCommand(s, 3) /\ Begins(s, SPECIFY) /\ SPECIFY \in {READ_SECT, SEEK, CALIBRATE, SPECIFY}
    BY <2>1, SpecifyIs
  <2>8. /\ Typed(fdc') /\ fdc'.dor = fdc.dor
        /\ dma' = dma /\ cyl' = cyl /\ irq_received' = irq_received
        /\ n + 1 < 3 => Gets(fdc', s, n + 1)
        /\ n + 1 = 3 => Settled(fdc', 0)
    <3>1. 3 \in 1..9 /\ n \in 0..(3 - 1)
      BY <2>2
    <3>. QED
      BY <2>5, <2>6, <2>7, <3>1, CommandEffect
  <2>9. CASE r = 3
    <3>1. Settled(fdc', 0) /\ r - 1 = 2
      BY <2>2, <2>8, <2>9
    <3>2. InInstall(fdc', irq_received', 2)
      BY <2>6, <2>8, <3>1, InstallPhases
    <3>. QED
      BY <2>8, <3>1, <3>2
  <2>10. CASE r # 3
    <3>1. r - 1 \in 3..5 /\ n + 1 = 5 - (r - 1) /\ n + 1 < 3
      BY <1>3, <2>1, <2>10
    <3>2. Gets(fdc', s, 5 - (r - 1))
      BY <2>8, <3>1
    <3>3. InInstall(fdc', irq_received', r - 1)
      BY <2>1, <2>6, <2>8, <3>1, <3>2, InstallPhases
    <3>. QED
      BY <2>8, <3>3
  <2>. QED
    BY <2>9, <2>10
<1>4. CASE r = 2
  <2>1. Head(todo) = Out(DOR, 28)
    BY <1>4 DEF IsInstallStep
  <2>2. WritesDor(28) /\ 28 \in {0, 4, 12, 28}
    BY <2>1, Performed
  <2>3. ~irq_received /\ Settled(fdc, 0) /\ fdc.dor = 12
    BY <1>4, InstallPhases
  <2>4. /\ Typed(fdc') /\ fdc'.dor = 28 /\ dma' = dma /\ cyl' = cyl
        /\ irq_received' = irq_received /\ Settled(fdc', 0)
    BY <2>2, <2>3, DorEffect
  <2>5. InInstall(fdc', irq_received', 1) /\ r - 1 = 1
    BY <1>4, <2>3, <2>4, InstallPhases
  <2>. QED
    BY <2>4, <2>5
<1>5. CASE r = 1
  <2>1. Head(todo) = Do("sleep")
    BY <1>5 DEF IsInstallStep
  <2>2. fdc' = fdc /\ dma' = dma /\ cyl' = cyl /\ irq_received' = irq_received
    BY <2>1, Performed DEF Sleeps
  <2>3. ~irq_received /\ Settled(fdc, 0) /\ fdc.dor = 28
    BY <1>5, InstallPhases
  <2>4. InInstall(fdc', irq_received', 0) /\ r - 1 = 0
    BY <1>5, <2>2, <2>3, InstallPhases
  <2>. QED
    BY <2>2, <2>4
<1>. QED
  BY <1>1, <1>2, <1>3, <1>4, <1>5

-----------------------------------------------------------------------------
(* What it does to the DMA controller.                                     *)

Chip(m, h, o, p, a, c) ==
  [masked |-> m, high |-> h, mode |-> o, page |-> p, address |-> a, count |-> c]
AreRegisters(m, h, o, p, a, c) ==
  /\ m \in SUBSET (0..3) /\ h \in BOOLEAN /\ o \in 0..255 /\ p \in 0..255
  /\ a \in [1..2 -> 0..255] /\ c \in [1..2 -> 0..255]
Holds(d, m, h, o, p, a, c) ==
  d.masked = m /\ d.high = h /\ d.mode = o /\ d.page = p /\ d.address = a /\ d.count = c

LEMMA AChip ==
  ASSUME NEW m, NEW h, NEW o, NEW p, NEW a, NEW c, AreRegisters(m, h, o, p, a, c)
  PROVE  Chip(m, h, o, p, a, c) \in DmaStates /\ Holds(Chip(m, h, o, p, a, c), m, h, o, p, a, c)
BY DEF DmaStates, Chip, AreRegisters, Holds

LEMMA ChipFields ==
  ASSUME NEW d \in DmaStates
  PROVE  /\ d = Chip(d.masked, d.high, d.mode, d.page, d.address, d.count)
         /\ AreRegisters(d.masked, d.high, d.mode, d.page, d.address, d.count)
BY DEF DmaStates, Chip, AreRegisters

\* A pair of bytes with another low byte, or another high one.
Pairs == [1..2 -> 0..255]
LowByte(pair, value) == [pair EXCEPT ![1] = value]
HighByte(pair, value) == [pair EXCEPT ![2] = value]
IsByte(value) == value \in 0..255

LEMMA WithByte ==
  ASSUME NEW pair \in Pairs, NEW value, IsByte(value)
  PROVE  /\ LowByte(pair, value) \in Pairs /\ HighByte(pair, value) \in Pairs
         /\ LowByte(pair, value)[1] = value
         /\ HighByte(pair, value)[1] = pair[1] /\ HighByte(pair, value)[2] = value
<1>1. pair \in [1..2 -> 0..255] /\ value \in 0..255 /\ 1 \in 1..2 /\ 2 \in 1..2 /\ 1 # 2
  BY DEF Pairs, IsByte
<1>2. LowByte(pair, value) \in Pairs /\ LowByte(pair, value)[1] = value
  BY <1>1 DEF LowByte, Pairs
<1>3. HighByte(pair, value) \in Pairs
  BY <1>1 DEF HighByte, Pairs
<1>4. HighByte(pair, value)[2] = value
  BY <1>1 DEF HighByte
<1>5. HighByte(pair, value)[1] = pair[1]
  BY <1>1 DEF HighByte
<1>. QED
  BY <1>2, <1>3, <1>4, <1>5

\* The positions of Programmed one by one.
Good(d, n) ==
  /\ n > 0 => 2 \notin d.masked
  /\ n > 1 => d.mode = 70
  /\ n > 2 => d.address[1] = 0
  /\ n > 3 => d.address[2] = 0
  /\ n > 4 => d.page = 2
  /\ n > 5 => d.count[1] = 255
  /\ n > 6 => d.count[2] = 1

LEMMA ResetsChip ==
  ASSUME NEW d \in DmaStates
  PROVE  LET e == Write8237(d, \h0d, 255)
         IN  e \in DmaStates
<1>1. PICK e : e = Write8237(d, \h0d, 255)
  OBVIOUS
<1>2. PICK m, h, o, p, a, c : Holds(d, m, h, o, p, a, c)
  BY DEF Holds
<1>3. PICK m1, h1 : m1 = 0..3 /\ h1 = FALSE
  OBVIOUS
<1>4. d = Chip(m, h, o, p, a, c) /\ AreRegisters(m, h, o, p, a, c)
  BY <1>2, ChipFields DEF Holds
<1>5. e = [d EXCEPT !.masked = m1, !.high = h1]
  <2>1. e = [d EXCEPT !.masked = {0, 1, 2, 3}, !.high = FALSE]
    BY <1>1 DEF Write8237
  <2>2. {0, 1, 2, 3} = m1
    BY <1>3
  <2>. QED
    BY <1>3, <2>1, <2>2, Zenon
<1>6. e = Chip(m1, h1, o, p, a, c)
  <2>1. PICK g : g = [d EXCEPT !.masked = m1]
    OBVIOUS
  <2>2. g = Chip(m1, h, o, p, a, c)
    BY <1>4, <2>1 DEF Chip
  <2>3. e = [g EXCEPT !.high = h1]
    BY <1>5, <2>1
  <2>. QED
    BY <2>2, <2>3 DEF Chip
<1>8. AreRegisters(m1, h1, o, p, a, c)
  BY <1>3, <1>4 DEF AreRegisters
<1>9. e \in DmaStates /\ Holds(e, m1, h1, o, p, a, c)
  BY <1>6, <1>8, AChip
<1>. QED
  BY <1>1, <1>9

LEMMA Unmasks ==
  ASSUME NEW d \in DmaStates
  PROVE  LET e == Write8237(d, \h0a, 2)
         IN  e \in DmaStates /\ Good(e, 1) /\ e.high = d.high
<1>1. PICK e : e = Write8237(d, \h0a, 2)
  OBVIOUS
<1>2. PICK m, h, o, p, a, c : Holds(d, m, h, o, p, a, c)
  BY DEF Holds
<1>3. PICK m1 : m1 = m \ {2}
  OBVIOUS
<1>4. d = Chip(m, h, o, p, a, c) /\ AreRegisters(m, h, o, p, a, c)
  BY <1>2, ChipFields DEF Holds
<1>5. e = [d EXCEPT !.masked = m1]
  <2>1. ~Bit(2, 4) /\ 2 % 4 = 2
    BY DEF Bit
  <2>2. e = [d EXCEPT !.masked = d.masked \ {2}]
    BY <1>1, <2>1 DEF Write8237
  <2>. QED
    BY <1>2, <1>3, <2>2 DEF Holds
<1>6. e = Chip(m1, h, o, p, a, c)
  BY <1>4, <1>5 DEF Chip
<1>8. AreRegisters(m1, h, o, p, a, c)
  BY <1>3, <1>4 DEF AreRegisters
<1>9. e \in DmaStates /\ Holds(e, m1, h, o, p, a, c)
  BY <1>6, <1>8, AChip
<1>10. Good(e, 1) /\ e.high = d.high
  BY <1>2, <1>3, <1>9 DEF Holds, Good
<1>. QED
  BY <1>1, <1>9, <1>10

LEMMA ResetsFlipFlop ==
  ASSUME NEW d \in DmaStates
  PROVE  LET e == Write8237(d, \h0c, 170)
         IN  e \in DmaStates /\ (Good(d, 1) => Good(e, 1)) /\ e.high = FALSE
<1>1. PICK e : e = Write8237(d, \h0c, 170)
  OBVIOUS
<1>2. PICK m, h, o, p, a, c : Holds(d, m, h, o, p, a, c)
  BY DEF Holds
<1>3. PICK h1 : h1 = FALSE
  OBVIOUS
<1>4. d = Chip(m, h, o, p, a, c) /\ AreRegisters(m, h, o, p, a, c)
  BY <1>2, ChipFields DEF Holds
<1>5. e = [d EXCEPT !.high = h1]
  <2>1. e = [d EXCEPT !.high = FALSE]
    BY <1>1 DEF Write8237
  <2>. QED
    BY <1>3, <2>1, Zenon
<1>6. e = Chip(m, h1, o, p, a, c)
  BY <1>4, <1>5 DEF Chip
<1>8. AreRegisters(m, h1, o, p, a, c)
  BY <1>3, <1>4 DEF AreRegisters
<1>9. e \in DmaStates /\ Holds(e, m, h1, o, p, a, c)
  BY <1>6, <1>8, AChip
<1>10. (Good(d, 1) => Good(e, 1)) /\ e.high = FALSE
  BY <1>2, <1>3, <1>9 DEF Holds, Good
<1>. QED
  BY <1>1, <1>9, <1>10

LEMMA SetsMode ==
  ASSUME NEW d \in DmaStates
  PROVE  LET e == Write8237(d, \h0b, 70)
         IN  e \in DmaStates /\ (Good(d, 1) => Good(e, 2)) /\ e.high = d.high
<1>1. PICK e : e = Write8237(d, \h0b, 70)
  OBVIOUS
<1>2. PICK m, h, o, p, a, c : Holds(d, m, h, o, p, a, c)
  BY DEF Holds
<1>3. PICK o1 : o1 = 70
  OBVIOUS
<1>4. d = Chip(m, h, o, p, a, c) /\ AreRegisters(m, h, o, p, a, c)
  BY <1>2, ChipFields DEF Holds
<1>5. e = [d EXCEPT !.mode = o1]
  <2>1. 70 % 4 = 2
    OBVIOUS
  <2>2. e = [d EXCEPT !.mode = 70]
    BY <1>1, <2>1 DEF Write8237
  <2>. QED
    BY <1>3, <2>2
<1>6. e = Chip(m, h, o1, p, a, c)
  BY <1>4, <1>5 DEF Chip
<1>8. AreRegisters(m, h, o1, p, a, c)
  BY <1>3, <1>4 DEF AreRegisters
<1>9. e \in DmaStates /\ Holds(e, m, h, o1, p, a, c)
  BY <1>6, <1>8, AChip
<1>10. (Good(d, 1) => Good(e, 2)) /\ e.high = d.high
  BY <1>2, <1>3, <1>9 DEF Holds, Good
<1>. QED
  BY <1>1, <1>9, <1>10

LEMMA SetsAddressLow ==
  ASSUME NEW d \in DmaStates, d.high = FALSE
  PROVE  LET e == Write8237(d, 4, 0)
         IN  e \in DmaStates /\ (Good(d, 2) => Good(e, 3)) /\ e.high = TRUE
<1>1. PICK e : e = Write8237(d, 4, 0)
  OBVIOUS
<1>2. PICK m, h, o, p, a, c : Holds(d, m, h, o, p, a, c)
  BY DEF Holds
<1>3. PICK h1, a1 : h1 = TRUE /\ a1 = LowByte(a, 0)
  OBVIOUS
<1>4. d = Chip(m, h, o, p, a, c) /\ AreRegisters(m, h, o, p, a, c)
  BY <1>2, ChipFields DEF Holds
<1>5. e = [d EXCEPT !.address = a1, !.high = h1]
  <2>1. e = [d EXCEPT !.address = SetByte(d, d.address, 0), !.high = ~d.high]
    BY <1>1 DEF Write8237
  <2>2. SetByte(d, d.address, 0) = a1
    BY <1>2, <1>3 DEF SetByte, Holds, LowByte, HighByte
  <2>3. (~d.high) = h1
    BY <1>3
  <2>. QED
    BY <2>1, <2>2, <2>3, Zenon
<1>6. e = Chip(m, h1, o, p, a1, c)
  <2>1. PICK g : g = [d EXCEPT !.address = a1]
    OBVIOUS
  <2>2. g = Chip(m, h, o, p, a1, c)
    BY <1>4, <2>1 DEF Chip
  <2>3. e = [g EXCEPT !.high = h1]
    BY <1>5, <2>1
  <2>. QED
    BY <2>2, <2>3 DEF Chip
<1>7. /\ a1 \in Pairs /\ a \in Pairs /\ h1 \in BOOLEAN
      /\ a1[1] = 0
  <2>1. a \in Pairs /\ IsByte(0)
    BY <1>4 DEF AreRegisters, Pairs, IsByte
  <2>. QED
    BY <1>3, <2>1, WithByte
<1>8. AreRegisters(m, h1, o, p, a1, c)
  BY <1>4, <1>7 DEF AreRegisters, Pairs
<1>9. e \in DmaStates /\ Holds(e, m, h1, o, p, a1, c)
  BY <1>6, <1>8, AChip
<1>10. (Good(d, 2) => Good(e, 3)) /\ e.high = TRUE
  BY <1>2, <1>3, <1>9, <1>7 DEF Holds, Good
<1>. QED
  BY <1>1, <1>9, <1>10

LEMMA SetsAddressHigh ==
  ASSUME NEW d \in DmaStates, d.high = TRUE
  PROVE  LET e == Write8237(d, 4, 0)
         IN  e \in DmaStates /\ (Good(d, 3) => Good(e, 4)) /\ e.high = FALSE
<1>1. PICK e : e = Write8237(d, 4, 0)
  OBVIOUS
<1>2. PICK m, h, o, p, a, c : Holds(d, m, h, o, p, a, c)
  BY DEF Holds
<1>3. PICK h1, a1 : h1 = FALSE /\ a1 = HighByte(a, 0)
  OBVIOUS
<1>4. d = Chip(m, h, o, p, a, c) /\ AreRegisters(m, h, o, p, a, c)
  BY <1>2, ChipFields DEF Holds
<1>5. e = [d EXCEPT !.address = a1, !.high = h1]
  <2>1. e = [d EXCEPT !.address = SetByte(d, d.address, 0), !.high = ~d.high]
    BY <1>1 DEF Write8237
  <2>2. SetByte(d, d.address, 0) = a1
    BY <1>2, <1>3 DEF SetByte, Holds, LowByte, HighByte
  <2>3. (~d.high) = h1
    BY <1>3
  <2>. QED
    BY <2>1, <2>2, <2>3, Zenon
<1>6. e = Chip(m, h1, o, p, a1, c)
  <2>1. PICK g : g = [d EXCEPT !.address = a1]
    OBVIOUS
  <2>2. g = Chip(m, h, o, p, a1, c)
    BY <1>4, <2>1 DEF Chip
  <2>3. e = [g EXCEPT !.high = h1]
    BY <1>5, <2>1
  <2>. QED
    BY <2>2, <2>3 DEF Chip
<1>7. /\ a1 \in Pairs /\ a \in Pairs /\ h1 \in BOOLEAN
      /\ a1[1] = a[1] /\ a1[2] = 0
  <2>1. a \in Pairs /\ IsByte(0)
    BY <1>4 DEF AreRegisters, Pairs, IsByte
  <2>. QED
    BY <1>3, <2>1, WithByte
<1>8. AreRegisters(m, h1, o, p, a1, c)
  BY <1>4, <1>7 DEF AreRegisters, Pairs
<1>9. e \in DmaStates /\ Holds(e, m, h1, o, p, a1, c)
  BY <1>6, <1>8, AChip
<1>10. (Good(d, 3) => Good(e, 4)) /\ e.high = FALSE
  BY <1>2, <1>3, <1>9, <1>7 DEF Holds, Good
<1>. QED
  BY <1>1, <1>9, <1>10

LEMMA SetsPage ==
  ASSUME NEW d \in DmaStates
  PROVE  LET e == Write8237(d, \h81, 2)
         IN  e \in DmaStates /\ (Good(d, 4) => Good(e, 5)) /\ e.high = d.high
<1>1. PICK e : e = Write8237(d, \h81, 2)
  OBVIOUS
<1>2. PICK m, h, o, p, a, c : Holds(d, m, h, o, p, a, c)
  BY DEF Holds
<1>3. PICK p1 : p1 = 2
  OBVIOUS
<1>4. d = Chip(m, h, o, p, a, c) /\ AreRegisters(m, h, o, p, a, c)
  BY <1>2, ChipFields DEF Holds
<1>5. e = [d EXCEPT !.page = p1]
  <2>1. e = [d EXCEPT !.page = 2]
    BY <1>1 DEF Write8237
  <2>. QED
    BY <1>3, <2>1
<1>6. e = Chip(m, h, o, p1, a, c)
  BY <1>4, <1>5 DEF Chip
<1>8. AreRegisters(m, h, o, p1, a, c)
  BY <1>3, <1>4 DEF AreRegisters
<1>9. e \in DmaStates /\ Holds(e, m, h, o, p1, a, c)
  BY <1>6, <1>8, AChip
<1>10. (Good(d, 4) => Good(e, 5)) /\ e.high = d.high
  BY <1>2, <1>3, <1>9 DEF Holds, Good
<1>. QED
  BY <1>1, <1>9, <1>10

LEMMA SetsCountLow ==
  ASSUME NEW d \in DmaStates, d.high = FALSE
  PROVE  LET e == Write8237(d, 5, 255)
         IN  e \in DmaStates /\ (Good(d, 5) => Good(e, 6)) /\ e.high = TRUE
<1>1. PICK e : e = Write8237(d, 5, 255)
  OBVIOUS
<1>2. PICK m, h, o, p, a, c : Holds(d, m, h, o, p, a, c)
  BY DEF Holds
<1>3. PICK h1, c1 : h1 = TRUE /\ c1 = LowByte(c, 255)
  OBVIOUS
<1>4. d = Chip(m, h, o, p, a, c) /\ AreRegisters(m, h, o, p, a, c)
  BY <1>2, ChipFields DEF Holds
<1>5. e = [d EXCEPT !.count = c1, !.high = h1]
  <2>1. e = [d EXCEPT !.count = SetByte(d, d.count, 255), !.high = ~d.high]
    BY <1>1 DEF Write8237
  <2>2. SetByte(d, d.count, 255) = c1
    BY <1>2, <1>3 DEF SetByte, Holds, LowByte, HighByte
  <2>3. (~d.high) = h1
    BY <1>3
  <2>. QED
    BY <2>1, <2>2, <2>3, Zenon
<1>6. e = Chip(m, h1, o, p, a, c1)
  <2>1. PICK g : g = [d EXCEPT !.count = c1]
    OBVIOUS
  <2>2. g = Chip(m, h, o, p, a, c1)
    BY <1>4, <2>1 DEF Chip
  <2>3. e = [g EXCEPT !.high = h1]
    BY <1>5, <2>1
  <2>. QED
    BY <2>2, <2>3 DEF Chip
<1>7. /\ c1 \in Pairs /\ c \in Pairs /\ h1 \in BOOLEAN
      /\ c1[1] = 255
  <2>1. c \in Pairs /\ IsByte(255)
    BY <1>4 DEF AreRegisters, Pairs, IsByte
  <2>. QED
    BY <1>3, <2>1, WithByte
<1>8. AreRegisters(m, h1, o, p, a, c1)
  BY <1>4, <1>7 DEF AreRegisters, Pairs
<1>9. e \in DmaStates /\ Holds(e, m, h1, o, p, a, c1)
  BY <1>6, <1>8, AChip
<1>10. (Good(d, 5) => Good(e, 6)) /\ e.high = TRUE
  BY <1>2, <1>3, <1>9, <1>7 DEF Holds, Good
<1>. QED
  BY <1>1, <1>9, <1>10

LEMMA SetsCountHigh ==
  ASSUME NEW d \in DmaStates, d.high = TRUE
  PROVE  LET e == Write8237(d, 5, 1)
         IN  e \in DmaStates /\ (Good(d, 6) => Good(e, 7)) /\ e.high = FALSE
<1>1. PICK e : e = Write8237(d, 5, 1)
  OBVIOUS
<1>2. PICK m, h, o, p, a, c : Holds(d, m, h, o, p, a, c)
  BY DEF Holds
<1>3. PICK h1, c1 : h1 = FALSE /\ c1 = HighByte(c, 1)
  OBVIOUS
<1>4. d = Chip(m, h, o, p, a, c) /\ AreRegisters(m, h, o, p, a, c)
  BY <1>2, ChipFields DEF Holds
<1>5. e = [d EXCEPT !.count = c1, !.high = h1]
  <2>1. e = [d EXCEPT !.count = SetByte(d, d.count, 1), !.high = ~d.high]
    BY <1>1 DEF Write8237
  <2>2. SetByte(d, d.count, 1) = c1
    BY <1>2, <1>3 DEF SetByte, Holds, LowByte, HighByte
  <2>3. (~d.high) = h1
    BY <1>3
  <2>. QED
    BY <2>1, <2>2, <2>3, Zenon
<1>6. e = Chip(m, h1, o, p, a, c1)
  <2>1. PICK g : g = [d EXCEPT !.count = c1]
    OBVIOUS
  <2>2. g = Chip(m, h, o, p, a, c1)
    BY <1>4, <2>1 DEF Chip
  <2>3. e = [g EXCEPT !.high = h1]
    BY <1>5, <2>1
  <2>. QED
    BY <2>2, <2>3 DEF Chip
<1>7. /\ c1 \in Pairs /\ c \in Pairs /\ h1 \in BOOLEAN
      /\ c1[1] = c[1] /\ c1[2] = 1
  <2>1. c \in Pairs /\ IsByte(1)
    BY <1>4 DEF AreRegisters, Pairs, IsByte
  <2>. QED
    BY <1>3, <2>1, WithByte
<1>8. AreRegisters(m, h1, o, p, a, c1)
  BY <1>4, <1>7 DEF AreRegisters, Pairs
<1>9. e \in DmaStates /\ Holds(e, m, h1, o, p, a, c1)
  BY <1>6, <1>8, AChip
<1>10. (Good(d, 6) => Good(e, 7)) /\ e.high = FALSE
  BY <1>2, <1>3, <1>9, <1>7 DEF Holds, Good
<1>. QED
  BY <1>1, <1>9, <1>10

LEMMA ProgrammedAt ==
  ASSUME NEW d \in DmaStates
  PROVE  /\ Programmed(d, 51) /\ Programmed(d, 50)
         /\ Programmed(d, 49) <=> Good(d, 1)
         /\ Programmed(d, 48) <=> Good(d, 1) /\ d.high = FALSE
         /\ Programmed(d, 47) <=> Good(d, 1) /\ d.high = FALSE
         /\ Programmed(d, 46) <=> Good(d, 2) /\ d.high = FALSE
         /\ Programmed(d, 45) <=> Good(d, 2) /\ d.high = FALSE
         /\ Programmed(d, 44) <=> Good(d, 3) /\ d.high = TRUE
         /\ Programmed(d, 43) <=> Good(d, 4) /\ d.high = FALSE
         /\ Programmed(d, 42) <=> Good(d, 5) /\ d.high = FALSE
         /\ Programmed(d, 41) <=> Good(d, 6) /\ d.high = TRUE
         /\ \A r \in 30..40 : Programmed(d, r) <=> Good(d, 7) /\ d.high = FALSE
<1>1. d.high \in BOOLEAN
  BY DEF DmaStates
<1>2. 2 + ReadTransfer + TransferSingle = 70
  BY DEF ReadTransfer, TransferSingle
<1>3. Programmed(d, 51) /\ Programmed(d, 50)
  BY DEF Programmed
<1>4. Programmed(d, 49) <=> Good(d, 1)
  BY DEF Programmed, Good
<1>5. /\ Programmed(d, 48) <=> Good(d, 1) /\ d.high = FALSE
      /\ Programmed(d, 47) <=> Good(d, 1) /\ d.high = FALSE
  BY <1>1 DEF Programmed, Good
<1>6. /\ Programmed(d, 46) <=> Good(d, 2) /\ d.high = FALSE
      /\ Programmed(d, 45) <=> Good(d, 2) /\ d.high = FALSE
  BY <1>1, <1>2 DEF Programmed, Good
<1>7. Programmed(d, 44) <=> Good(d, 3) /\ d.high = TRUE
  BY <1>1, <1>2 DEF Programmed, Good
<1>8. Programmed(d, 43) <=> Good(d, 4) /\ d.high = FALSE
  BY <1>1, <1>2 DEF Programmed, Good
<1>9. Programmed(d, 42) <=> Good(d, 5) /\ d.high = FALSE
  BY <1>1, <1>2 DEF Programmed, Good
<1>10. Programmed(d, 41) <=> Good(d, 6) /\ d.high = TRUE
  BY <1>1, <1>2 DEF Programmed, Good
<1>11. ASSUME NEW r \in 30..40
       PROVE  Programmed(d, r) <=> Good(d, 7) /\ d.high = FALSE
  BY <1>1, <1>2 DEF Programmed, Good
<1>. QED
  BY <1>3, <1>4, <1>5, <1>6, <1>7, <1>8, <1>9, <1>10, <1>11

LEMMA DmaEffect ==
  ASSUME Timeouts = FALSE, Perform, dma \in DmaStates, NEW r \in 1..12,
         IsDmaStep(Head(todo), r), Programmed(dma, r + 39)
  PROVE  /\ fdc' = fdc /\ cyl' = cyl /\ irq_received' = irq_received
         /\ dma' \in DmaStates /\ Programmed(dma', r + 38)
<1>0. Write8237(dma, \hdc, 255) = dma
  BY DEF Write8237
<1>1. CASE r = 12
  <2>1. PICK p : p = \h0d
    OBVIOUS
  <2>2. p # DOR /\ Head(todo) = Out(p, 255)
    BY <1>1, <2>1 DEF IsDmaStep, DOR
  <2>3. Writes(p, 255)
    BY <2>2, Performed
  <2>4. /\ fdc' = fdc /\ cyl' = cyl /\ irq_received' = irq_received
        /\ dma' = Write8237(dma, \h0d, 255)
    BY <2>1, <2>3 DEF Writes
  <2>5. r + 39 = 51 /\ r + 38 = 50
    BY <1>1
  <2>6. dma' \in DmaStates
    BY <2>4, ResetsChip
  <2>7. Programmed(dma', 50)
    BY <2>6, ProgrammedAt
  <2>. QED
    BY <2>4, <2>5, <2>6, <2>7
<1>2. CASE r = 11
  <2>1. PICK p : p = \h0a
    OBVIOUS
  <2>2. p # DOR /\ Head(todo) = Out(p, 2)
    BY <1>2, <2>1 DEF IsDmaStep, DOR
  <2>3. Writes(p, 2)
    BY <2>2, Performed
  <2>4. /\ fdc' = fdc /\ cyl' = cyl /\ irq_received' = irq_received
        /\ dma' = Write8237(dma, \h0a, 2)
    BY <2>1, <2>3 DEF Writes
  <2>5. r + 39 = 50 /\ r + 38 = 49
    BY <1>2
  <2>6. dma' \in DmaStates /\ Good(dma', 1)
    BY <2>4, Unmasks
  <2>7. Programmed(dma', 49)
    BY <2>6, ProgrammedAt
  <2>. QED
    BY <2>4, <2>5, <2>6, <2>7
<1>3. CASE r = 10
  <2>1. PICK p : p = \h0c
    OBVIOUS
  <2>2. p # DOR /\ Head(todo) = Out(p, 170)
    BY <1>3, <2>1 DEF IsDmaStep, DOR
  <2>3. Writes(p, 170)
    BY <2>2, Performed
  <2>4. /\ fdc' = fdc /\ cyl' = cyl /\ irq_received' = irq_received
        /\ dma' = Write8237(dma, \h0c, 170)
    BY <2>1, <2>3 DEF Writes
  <2>5. r + 39 = 49 /\ r + 38 = 48
    BY <1>3
  <2>6. Good(dma, 1)
    <3>1. Programmed(dma, 49)
      BY <2>5
    <3>. QED
      BY <3>1, ProgrammedAt
  <2>7. dma' \in DmaStates /\ Good(dma', 1) /\ dma'.high = FALSE
    BY <2>4, <2>6, ResetsFlipFlop
  <2>8. Programmed(dma', 48)
    BY <2>7, ProgrammedAt
  <2>. QED
    BY <2>4, <2>5, <2>7, <2>8
<1>4. CASE r = 9
  <2>1. PICK p : p = \h0a
    OBVIOUS
  <2>2. p # DOR /\ Head(todo) = Out(p, 2)
    BY <1>4, <2>1 DEF IsDmaStep, DOR
  <2>3. Writes(p, 2)
    BY <2>2, Performed
  <2>4. /\ fdc' = fdc /\ cyl' = cyl /\ irq_received' = irq_received
        /\ dma' = Write8237(dma, \h0a, 2)
    BY <2>1, <2>3 DEF Writes
  <2>5. r + 39 = 48 /\ r + 38 = 47
    BY <1>4
  <2>6. Good(dma, 1) /\ dma.high = FALSE
    <3>1. Programmed(dma, 48)
      BY <2>5
    <3>. QED
      BY <3>1, ProgrammedAt
  <2>7. dma' \in DmaStates /\ Good(dma', 1) /\ dma'.high = FALSE
    BY <2>4, <2>6, Unmasks
  <2>8. Programmed(dma', 47)
    BY <2>7, ProgrammedAt
  <2>. QED
    BY <2>4, <2>5, <2>7, <2>8
<1>5. CASE r = 8
  <2>1. PICK p : p = \h0b
    OBVIOUS
  <2>2. p # DOR /\ Head(todo) = Out(p, 70)
    BY <1>5, <2>1 DEF IsDmaStep, DOR
  <2>3. Writes(p, 70)
    BY <2>2, Performed
  <2>4. /\ fdc' = fdc /\ cyl' = cyl /\ irq_received' = irq_received
        /\ dma' = Write8237(dma, \h0b, 70)
    BY <2>1, <2>3 DEF Writes
  <2>5. r + 39 = 47 /\ r + 38 = 46
    BY <1>5
  <2>6. Good(dma, 1) /\ dma.high = FALSE
    <3>1. Programmed(dma, 47)
      BY <2>5
    <3>. QED
      BY <3>1, ProgrammedAt
  <2>7. dma' \in DmaStates /\ Good(dma', 2) /\ dma'.high = FALSE
    BY <2>4, <2>6, SetsMode
  <2>8. Programmed(dma', 46)
    BY <2>7, ProgrammedAt
  <2>. QED
    BY <2>4, <2>5, <2>7, <2>8
<1>6. CASE r = 7
  <2>1. PICK p : p = \hdc
    OBVIOUS
  <2>2. p # DOR /\ Head(todo) = Out(p, 255)
    BY <1>6, <2>1 DEF IsDmaStep, DOR
  <2>3. Writes(p, 255)
    BY <2>2, Performed
  <2>4. /\ fdc' = fdc /\ cyl' = cyl /\ irq_received' = irq_received
        /\ dma' = Write8237(dma, \hdc, 255)
    BY <2>1, <2>3 DEF Writes
  <2>5. r + 39 = 46 /\ r + 38 = 45
    BY <1>6
  <2>6. Good(dma, 2) /\ dma.high = FALSE
    <3>1. Programmed(dma, 46)
      BY <2>5
    <3>. QED
      BY <3>1, ProgrammedAt
  <2>7. dma' \in DmaStates /\ Good(dma', 2) /\ dma'.high = FALSE
    BY <1>0, <2>4, <2>6
  <2>8. Programmed(dma', 45)
    BY <2>7, ProgrammedAt
  <2>. QED
    BY <2>4, <2>5, <2>7, <2>8
<1>7. CASE r = 6
  <2>1. PICK p : p = 4
    OBVIOUS
  <2>2. p # DOR /\ Head(todo) = Out(p, 0)
    BY <1>7, <2>1 DEF IsDmaStep, DOR
  <2>3. Writes(p, 0)
    BY <2>2, Performed
  <2>4. /\ fdc' = fdc /\ cyl' = cyl /\ irq_received' = irq_received
        /\ dma' = Write8237(dma, 4, 0)
    BY <2>1, <2>3 DEF Writes
  <2>5. r + 39 = 45 /\ r + 38 = 44
    BY <1>7
  <2>6. Good(dma, 2) /\ dma.high = FALSE
    <3>1. Programmed(dma, 45)
      BY <2>5
    <3>. QED
      BY <3>1, ProgrammedAt
  <2>7. dma' \in DmaStates /\ Good(dma', 3) /\ dma'.high = TRUE
    BY <2>4, <2>6, SetsAddressLow
  <2>8. Programmed(dma', 44)
    BY <2>7, ProgrammedAt
  <2>. QED
    BY <2>4, <2>5, <2>7, <2>8
<1>8. CASE r = 5
  <2>1. PICK p : p = 4
    OBVIOUS
  <2>2. p # DOR /\ Head(todo) = Out(p, 0)
    BY <1>8, <2>1 DEF IsDmaStep, DOR
  <2>3. Writes(p, 0)
    BY <2>2, Performed
  <2>4. /\ fdc' = fdc /\ cyl' = cyl /\ irq_received' = irq_received
        /\ dma' = Write8237(dma, 4, 0)
    BY <2>1, <2>3 DEF Writes
  <2>5. r + 39 = 44 /\ r + 38 = 43
    BY <1>8
  <2>6. Good(dma, 3) /\ dma.high = TRUE
    <3>1. Programmed(dma, 44)
      BY <2>5
    <3>. QED
      BY <3>1, ProgrammedAt
  <2>7. dma' \in DmaStates /\ Good(dma', 4) /\ dma'.high = FALSE
    BY <2>4, <2>6, SetsAddressHigh
  <2>8. Programmed(dma', 43)
    BY <2>7, ProgrammedAt
  <2>. QED
    BY <2>4, <2>5, <2>7, <2>8
<1>9. CASE r = 4
  <2>1. PICK p : p = \h81
    OBVIOUS
  <2>2. p # DOR /\ Head(todo) = Out(p, 2)
    BY <1>9, <2>1 DEF IsDmaStep, DOR
  <2>3. Writes(p, 2)
    BY <2>2, Performed
  <2>4. /\ fdc' = fdc /\ cyl' = cyl /\ irq_received' = irq_received
        /\ dma' = Write8237(dma, \h81, 2)
    BY <2>1, <2>3 DEF Writes
  <2>5. r + 39 = 43 /\ r + 38 = 42
    BY <1>9
  <2>6. Good(dma, 4) /\ dma.high = FALSE
    <3>1. Programmed(dma, 43)
      BY <2>5
    <3>. QED
      BY <3>1, ProgrammedAt
  <2>7. dma' \in DmaStates /\ Good(dma', 5) /\ dma'.high = FALSE
    BY <2>4, <2>6, SetsPage
  <2>8. Programmed(dma', 42)
    BY <2>7, ProgrammedAt
  <2>. QED
    BY <2>4, <2>5, <2>7, <2>8
<1>10. CASE r = 3
  <2>1. PICK p : p = 5
    OBVIOUS
  <2>2. p # DOR /\ Head(todo) = Out(p, 255)
    BY <1>10, <2>1 DEF IsDmaStep, DOR
  <2>3. Writes(p, 255)
    BY <2>2, Performed
  <2>4. /\ fdc' = fdc /\ cyl' = cyl /\ irq_received' = irq_received
        /\ dma' = Write8237(dma, 5, 255)
    BY <2>1, <2>3 DEF Writes
  <2>5. r + 39 = 42 /\ r + 38 = 41
    BY <1>10
  <2>6. Good(dma, 5) /\ dma.high = FALSE
    <3>1. Programmed(dma, 42)
      BY <2>5
    <3>. QED
      BY <3>1, ProgrammedAt
  <2>7. dma' \in DmaStates /\ Good(dma', 6) /\ dma'.high = TRUE
    BY <2>4, <2>6, SetsCountLow
  <2>8. Programmed(dma', 41)
    BY <2>7, ProgrammedAt
  <2>. QED
    BY <2>4, <2>5, <2>7, <2>8
<1>11. CASE r = 2
  <2>1. PICK p : p = 5
    OBVIOUS
  <2>2. p # DOR /\ Head(todo) = Out(p, 1)
    BY <1>11, <2>1 DEF IsDmaStep, DOR
  <2>3. Writes(p, 1)
    BY <2>2, Performed
  <2>4. /\ fdc' = fdc /\ cyl' = cyl /\ irq_received' = irq_received
        /\ dma' = Write8237(dma, 5, 1)
    BY <2>1, <2>3 DEF Writes
  <2>5. r + 39 = 41 /\ r + 38 = 40
    BY <1>11
  <2>6. Good(dma, 6) /\ dma.high = TRUE
    <3>1. Programmed(dma, 41)
      BY <2>5
    <3>. QED
      BY <3>1, ProgrammedAt
  <2>7. dma' \in DmaStates /\ Good(dma', 7) /\ dma'.high = FALSE
    BY <2>4, <2>6, SetsCountHigh
  <2>8. Programmed(dma', 40)
    <3>1. 40 \in 30..40
      OBVIOUS
    <3>. QED
      BY <2>7, <3>1, ProgrammedAt
  <2>. QED
    BY <2>4, <2>5, <2>7, <2>8
<1>12. CASE r = 1
  <2>1. PICK p : p = \hdc
    OBVIOUS
  <2>2. p # DOR /\ Head(todo) = Out(p, 255)
    BY <1>12, <2>1 DEF IsDmaStep, DOR
  <2>3. Writes(p, 255)
    BY <2>2, Performed
  <2>4. /\ fdc' = fdc /\ cyl' = cyl /\ irq_received' = irq_received
        /\ dma' = Write8237(dma, \hdc, 255)
    BY <2>1, <2>3 DEF Writes
  <2>5. r + 39 = 40 /\ r + 38 = 39
    BY <1>12
  <2>6. Good(dma, 7) /\ dma.high = FALSE
    <3>1. Programmed(dma, 40) /\ 40 \in 30..40
      BY <2>5
    <3>. QED
      BY <3>1, ProgrammedAt
  <2>7. dma' \in DmaStates /\ Good(dma', 7) /\ dma'.high = FALSE
    BY <1>0, <2>4, <2>6
  <2>8. Programmed(dma', 39)
    <3>1. 39 \in 30..40
      OBVIOUS
    <3>. QED
      BY <2>7, <3>1, ProgrammedAt
  <2>. QED
    BY <2>4, <2>5, <2>7, <2>8
<1>. QED
  BY <1>1, <1>2, <1>3, <1>4, <1>5, <1>6, <1>7, <1>8, <1>9, <1>10, <1>11, <1>12

-----------------------------------------------------------------------------
(* The steps of reading a sector.                                          *)

LEMMA CommandsAre ==
  /\ IsCommand(CalibrateCommand, 2) /\ Begins(CalibrateCommand, CALIBRATE)
  /\ \A c \in Places : /\ IsCommand(SeekCommand(c), 3) /\ Begins(SeekCommand(c), SEEK)
                       /\ IsCommand(ReadCommand(c), 9) /\ Begins(ReadCommand(c), READ_SECT)
<1>1. /\ CALIBRATE % 256 = CALIBRATE /\ SEEK % 256 = SEEK /\ READ_SECT % 256 = READ_SECT
  BY DEF CALIBRATE, SEEK, READ_SECT
<1>2. Needs(CALIBRATE) = 2 /\ Needs(SEEK) = 3 /\ Needs(READ_SECT) = 9
  BY DEF Needs, CALIBRATE, SEEK, READ_SECT, SPECIFY
<1>3. CalibrateCommand[1] = CALIBRATE
  BY DEF CalibrateCommand
<1>4. IsCommand(CalibrateCommand, 2) /\ Begins(CalibrateCommand, CALIBRATE)
  BY <1>1, <1>2, <1>3, Commands DEF IsCommand, Begins
<1>5. ASSUME NEW c \in Places
      PROVE  /\ IsCommand(SeekCommand(c), 3) /\ Begins(SeekCommand(c), SEEK)
             /\ IsCommand(ReadCommand(c), 9) /\ Begins(ReadCommand(c), READ_SECT)
  <2>1. SeekCommand(c)[1] = SEEK /\ ReadCommand(c)[1] = READ_SECT
    BY DEF SeekCommand, ReadCommand
  <2>. QED
    BY <1>1, <1>2, <2>1, Commands DEF IsCommand, Begins
<1>. QED
  BY <1>4, <1>5

LEMMA ProgramPhase ==
  ASSUME NEW f, NEW irq \in BOOLEAN, NEW c, NEW r \in 40..51
  PROVE  InRead(f, irq, c, r) <=> ~irq /\ Settled(f, 0) /\ f.dor = 28
BY DEF InRead

LEMMA CommandPhase ==
  ASSUME NEW f, NEW irq \in BOOLEAN, NEW c, NEW r \in 31..39
  PROVE  InRead(f, irq, c, r) <=> ~irq /\ Gets(f, ReadCommand(c), 39 - r) /\ f.dor = 28
BY DEF InRead

LEMMA ReportPhase ==
  ASSUME NEW f, NEW irq \in BOOLEAN, NEW c, NEW r \in 22..28
  PROVE  InRead(f, irq, c, r) <=> ~irq /\ Reports(f, r - 21) /\ f.dor = 28
BY DEF InRead

LEMMA ReadPhases ==
  ASSUME NEW f, NEW irq \in BOOLEAN, NEW c
  PROVE  /\ InRead(f, irq, c, 30) <=> /\ f.dor = 28 /\ (irq => Reports(f, 7))
                                      /\ ~irq => Executes(f, ReadCommand(c))
         /\ InRead(f, irq, c, 29) <=> irq /\ Reports(f, 7) /\ f.dor = 28
         /\ InRead(f, irq, c, 20) <=> ~irq /\ Reports(f, 1) /\ f.dor = 28
         /\ \A r \in {18, 19, 21} : InRead(f, irq, c, r) <=> ~irq /\ Settled(f, 0) /\ f.dor = 28
         /\ InRead(f, irq, c, 17) <=> ~irq /\ Settled(f, 0) /\ f.dor = 4
         /\ InRead(f, irq, c, 16) <=> InReset(f, irq, 16) /\ f.dor = 4
         /\ \A r \in 0..15 : InRead(f, irq, c, r) <=> InReset(f, irq, r)
<1>3. /\ InRead(f, irq, c, 30) <=> /\ f.dor = 28 /\ (irq => Reports(f, 7))
                                   /\ ~irq => Executes(f, ReadCommand(c))
      /\ InRead(f, irq, c, 29) <=> irq /\ Reports(f, 7) /\ f.dor = 28
  BY DEF InRead
<1>5. InRead(f, irq, c, 20) <=> ~irq /\ Reports(f, 1) /\ f.dor = 28
  BY DEF InRead
<1>6. ASSUME NEW r \in {18, 19, 21}
      PROVE  InRead(f, irq, c, r) <=> ~irq /\ Settled(f, 0) /\ f.dor = 28
  BY DEF InRead
<1>7. InRead(f, irq, c, 17) <=> ~irq /\ Settled(f, 0) /\ f.dor = 4
  BY DEF InRead
<1>8. InRead(f, irq, c, 16) <=> InReset(f, irq, 16) /\ f.dor = 4
  <2>1. InRead(f, irq, c, 16) <=> ~irq /\ InReset(f, irq, 16) /\ f.dor = 4
    BY DEF InRead
  <2>2. InReset(f, irq, 16) => ~irq
    BY ResetPhases
  <2>. QED
    BY <2>1, <2>2
<1>9. ASSUME NEW r \in 0..15
      PROVE  InRead(f, irq, c, r) <=> InReset(f, irq, r)
  <2>1. InRead(f, irq, c, r) <=> (irq => r \in 13..14) /\ InReset(f, irq, r)
    BY DEF InRead
  <2>2. InReset(f, irq, r) => (irq => r \in 13..14)
    BY DEF InReset
  <2>. QED
    BY <2>1, <2>2
<1>. QED
  BY <1>3, <1>5, <1>6, <1>7, <1>8, <1>9

\* What InPhase says of the channel while a sector is read.
ChannelReady(d, irq, r) == r > 30 \/ (r = 30 /\ ~irq) => Programmed(d, r)

LEMMA ChannelStays ==
  ASSUME NEW d \in DmaStates, NEW irq, NEW jrq, NEW r \in 1..40, ChannelReady(d, irq, r),
         r = 30 => irq
  PROVE  ChannelReady(d, jrq, r - 1)
<1>1. CASE r > 30
  <2>1. Programmed(d, r) /\ r \in 30..40 /\ r - 1 \in 30..40
    BY <1>1 DEF ChannelReady
  <2>2. Programmed(d, r - 1)
    BY <2>1, ProgrammedAt
  <2>. QED
    BY <2>2 DEF ChannelReady
<1>2. CASE r <= 30
  BY <1>2 DEF ChannelReady
<1>. QED
  BY <1>1, <1>2

LEMMA SectorEffect ==
  ASSUME Timeouts = FALSE, Typed(fdc), cyl \in 0..255, irq_received \in BOOLEAN,
         dma \in DmaStates, Perform, NEW c \in Places, NEW r \in 1..51,
         IsReadStep(Head(todo), c, r), InRead(fdc, irq_received, c, r),
         ChannelReady(dma, irq_received, r)
  PROVE  /\ Typed(fdc') /\ cyl' \in 0..255 /\ irq_received' \in BOOLEAN /\ dma' \in DmaStates
         /\ InRead(fdc', irq_received', c, r - 1) /\ ChannelReady(dma', irq_received', r - 1)
         /\ (r = 30 => irq_received) /\ (r = 31 => ~irq_received')
<1>1. CASE r \in 40..51
  <2>1. PICK q : q = r - 39
    OBVIOUS
  <2>2. q \in 1..12 /\ q + 39 = r /\ q + 38 = r - 1
    BY <1>1, <2>1
  <2>3. IsDmaStep(Head(todo), q)
    BY <1>1, <2>1 DEF IsReadStep
  <2>4. Programmed(dma, q + 39)
    BY <1>1, <2>2 DEF ChannelReady
  <2>5. /\ fdc' = fdc /\ cyl' = cyl /\ irq_received' = irq_received
        /\ dma' \in DmaStates /\ Programmed(dma', q + 38)
    BY <2>2, <2>3, <2>4, DmaEffect
  <2>6. ~irq_received /\ Settled(fdc, 0) /\ fdc.dor = 28
    BY <1>1, ProgramPhase
  <2>7. InRead(fdc, irq_received, c, r - 1)
    <3>1. CASE r - 1 \in 40..51
      BY <2>6, <3>1, ProgramPhase
    <3>2. CASE r = 40
      <4>1. Gets(fdc, ReadCommand(c), 0)
        BY <2>6, SettledZero
      <4>2. r - 1 = 39 /\ 39 \in 31..39 /\ 39 - 39 = 0
        BY <3>2
      <4>3. PICK p : p = r - 1
        OBVIOUS
      <4>4. p \in 31..39 /\ 39 - p = 0
        BY <4>2, <4>3
      <4>5. InRead(fdc, irq_received, c, p)
        BY <2>6, <4>1, <4>4, CommandPhase
      <4>. QED
        BY <4>3, <4>5
    <3>. QED
      BY <1>1, <3>1, <3>2
  <2>8. ChannelReady(dma', irq_received', r - 1)
    BY <2>2, <2>5 DEF ChannelReady
  <2>. QED
    BY <1>1, <2>5, <2>7, <2>8
<1>2. CASE r \in 31..39
  <2>1. PICK n, s : n = 39 - r /\ s = ReadCommand(c)
    OBVIOUS
  <2>2. n \in 0..8 /\ n + 1 = 40 - r
    BY <1>2, <2>1
  <2>3. Head(todo) = Send(s[n + 1])
    BY <1>2, <2>1, <2>2 DEF IsReadStep
  <2>4. SendsByte(s[n + 1])
    BY <2>3, Performed
  <2>5. ~irq_received /\ Gets(fdc, s, n) /\ fdc.dor = 28 /\ Bit(fdc.dor, 4)
    BY <1>2, <2>1, Bits, CommandPhase
  <2>6. IsCommand(s, 9) /\ Begins(s, READ_SECT)
    BY <2>1, CommandsAre
  <2>7. /\ Typed(fdc') /\ fdc'.dor = fdc.dor
        /\ dma' = dma /\ cyl' = cyl /\ irq_received' = irq_received
        /\ n + 1 < 9 => Gets(fdc', s, n + 1)
        /\ n + 1 = 9 => Executes(fdc', s)
    <3>1. 9 \in 1..9 /\ n \in 0..(9 - 1) /\ READ_SECT \in {READ_SECT, SEEK, CALIBRATE, SPECIFY}
          /\ READ_SECT \in {READ_SECT, SEEK, CALIBRATE}
      BY <2>2
    <3>. QED
      BY <2>4, <2>5, <2>6, <3>1, CommandEffect
  <2>8. InRead(fdc', irq_received', c, r - 1)
    <3>1. CASE r = 31
      <4>1. Executes(fdc', ReadCommand(c)) /\ r - 1 = 30
        BY <2>1, <2>2, <2>7, <3>1
      <4>2. InRead(fdc', irq_received', c, 30)
        BY <2>5, <2>7, <4>1, ReadPhases
      <4>. QED
        BY <4>1, <4>2
    <3>2. CASE r # 31
      <4>1. r - 1 \in 31..39 /\ n + 1 = 39 - (r - 1) /\ n + 1 < 9
        BY <1>2, <2>1, <3>2
      <4>2. Gets(fdc', ReadCommand(c), 39 - (r - 1))
        BY <2>1, <2>7, <4>1
      <4>. QED
        BY <2>5, <2>7, <4>1, <4>2, CommandPhase
    <3>. QED
      BY <3>1, <3>2
  <2>9. ChannelReady(dma', irq_received', r - 1)
    BY <1>2, <2>7, ChannelStays
  <2>. QED
    BY <1>2, <2>5, <2>7, <2>8, <2>9
<1>3. CASE r = 30
  <2>1. Head(todo) = Do("wait")
    BY <1>3 DEF IsReadStep
  <2>2. Waits
    BY <2>1, Performed
  <2>3. fdc.dor = 28 /\ (irq_received => Reports(fdc, 7))
    BY <1>3, ReadPhases
  <2>4. /\ irq_received /\ irq_received' /\ irq_received' \in BOOLEAN
        /\ fdc' = fdc /\ dma' = dma /\ cyl' = cyl /\ Reports(fdc, 7)
    BY <2>2, <2>3 DEF Waits
  <2>5. InRead(fdc', irq_received', c, 29)
    BY <2>3, <2>4, ReadPhases
  <2>6. r - 1 = 29 /\ r # 31
    BY <1>3
  <2>7. ChannelReady(dma', irq_received', r - 1)
    BY <2>6 DEF ChannelReady
  <2>8. InRead(fdc', irq_received', c, r - 1)
    BY <2>5, <2>6
  <2>9. Typed(fdc') /\ cyl' \in 0..255 /\ dma' \in DmaStates
    BY <2>4
  <2>. QED
    BY <2>4, <2>6, <2>7, <2>8, <2>9
<1>4. ASSUME r \in 1..29
      PROVE  ChannelReady(dma', irq_received', r - 1) /\ r # 30 /\ r # 31
  BY <1>4 DEF ChannelReady
<1>5. CASE r = 29
  <2>1. Head(todo) = Do("clear")
    BY <1>5 DEF IsReadStep
  <2>2. irq_received' = FALSE /\ fdc' = fdc /\ dma' = dma /\ cyl' = cyl
    BY <2>1, Performed DEF Clears
  <2>3. Reports(fdc, 7) /\ fdc.dor = 28
    BY <1>5, ReadPhases
  <2>4. r - 1 = 28
    BY <1>5
  <2>5. ~irq_received' /\ irq_received' \in BOOLEAN
    BY <2>2
  <2>7. InRead(fdc', irq_received', c, r - 1)
    <3>1. r - 1 \in 22..28 /\ (r - 1) - 21 = 7
      BY <2>4
    <3>2. Reports(fdc', (r - 1) - 21) /\ fdc'.dor = 28
      BY <2>2, <2>3, <3>1
    <3>. QED
      BY <2>5, <3>1, <3>2, ReportPhase
  <2>8. Typed(fdc') /\ cyl' \in 0..255 /\ dma' \in DmaStates
    BY <2>2
  <2>. QED
    BY <1>4, <1>5, <2>5, <2>7, <2>8
<1>6. CASE r \in 22..28
  <2>1. Head(todo) = Do("read")
    BY <1>6 DEF IsReadStep
  <2>2. ReadsByte("read")
    BY <2>1, Performed
  <2>3. PICK n : n = r - 21
    OBVIOUS
  <2>4. n \in 1..7
    BY <1>6, <2>3
  <2>5. ~irq_received /\ Reports(fdc, n) /\ fdc.dor = 28 /\ Bit(fdc.dor, 4)
    <3>1. ~irq_received /\ Reports(fdc, r - 21) /\ fdc.dor = 28
      BY <1>6, ReportPhase
    <3>. QED
      BY <2>3, <3>1, Bits
  <2>6. /\ Typed(fdc') /\ fdc'.dor = 28
        /\ dma' = dma /\ irq_received' = irq_received /\ cyl' \in 0..255
        /\ Reports(fdc', n - 1)
    <3>1. n \in 0..12 /\ n > 0
      BY <2>4
    <3>. QED
      BY <2>2, <2>5, <3>1, ReadEffect
  <2>7. InRead(fdc', irq_received', c, r - 1)
    <3>1. CASE r = 22
      <4>1. n - 1 = 0 /\ r - 1 = 21 /\ 21 \in {18, 19, 21}
        BY <2>3, <3>1
      <4>2. Settled(fdc', 0)
        <5>1. Reports(fdc', 0)
          BY <2>6, <4>1
        <5>. QED
          BY <2>6, <5>1, SettledZero
      <4>3. InRead(fdc', irq_received', c, 21)
        BY <2>5, <2>6, <4>1, <4>2, ReadPhases
      <4>. QED
        BY <4>1, <4>3
    <3>2. CASE r # 22
      <4>1. r - 1 \in 22..28 /\ n - 1 = (r - 1) - 21
        BY <1>6, <2>3, <3>2
      <4>2. Reports(fdc', (r - 1) - 21)
        BY <2>6, <4>1
      <4>. QED
        BY <2>5, <2>6, <4>1, <4>2, ReportPhase
    <3>. QED
      BY <3>1, <3>2
  <2>. QED
    BY <1>4, <1>6, <2>6, <2>7
<1>7. CASE r = 21
  <2>1. Head(todo) = Send(CHECK_INT)
    BY <1>7 DEF IsReadStep
  <2>2. SendsByte(CHECK_INT)
    BY <2>1, Performed
  <2>3. ~irq_received /\ Settled(fdc, 0) /\ fdc.dor = 28 /\ Bit(fdc.dor, 4)
    BY <1>7, Bits, ReadPhases
  <2>4. /\ Typed(fdc') /\ fdc'.dor = 28
        /\ dma' = dma /\ cyl' = cyl /\ irq_received' = irq_received /\ Reports(fdc', 1)
    <3>1. 0 \in 0..12 /\ 0 % 3 = 0
      OBVIOUS
    <3>. QED
      BY <2>2, <2>3, <3>1, CheckEffect
  <2>5. InRead(fdc', irq_received', c, 20) /\ r - 1 = 20
    BY <1>7, <2>3, <2>4, ReadPhases
  <2>. QED
    BY <1>4, <1>7, <2>4, <2>5
<1>8. CASE r = 20
  <2>1. Head(todo) = Do("read")
    BY <1>8 DEF IsReadStep
  <2>2. ReadsByte("read")
    BY <2>1, Performed
  <2>3. ~irq_received /\ Reports(fdc, 1) /\ fdc.dor = 28 /\ Bit(fdc.dor, 4)
    BY <1>8, Bits, ReadPhases
  <2>4. /\ Typed(fdc') /\ fdc'.dor = 28
        /\ dma' = dma /\ irq_received' = irq_received /\ cyl' \in 0..255
        /\ Reports(fdc', 0)
    <3>1. 1 \in 0..12 /\ 1 > 0 /\ 1 - 1 = 0
      OBVIOUS
    <3>. QED
      BY <2>2, <2>3, <3>1, ReadEffect
  <2>5. Settled(fdc', 0) /\ 19 \in {18, 19, 21} /\ r - 1 = 19
    BY <1>8, <2>4, SettledZero
  <2>6. InRead(fdc', irq_received', c, 19)
    BY <2>3, <2>4, <2>5, ReadPhases
  <2>. QED
    BY <1>4, <1>8, <2>4, <2>5, <2>6
<1>9. CASE r = 19
  <2>1. Head(todo) = Do("read_cyl")
    BY <1>9 DEF IsReadStep
  <2>2. ReadsByte("read_cyl")
    BY <2>1, Performed
  <2>3. ~irq_received /\ Settled(fdc, 0) /\ fdc.dor = 28 /\ Bit(fdc.dor, 4)
    BY <1>9, Bits, ReadPhases
  <2>4. /\ Typed(fdc') /\ fdc'.dor = 28
        /\ dma' = dma /\ irq_received' = irq_received /\ cyl' \in 0..255
        /\ Settled(fdc', 0)
    <3>1. 0 \in 0..12
      OBVIOUS
    <3>. QED
      BY <2>2, <2>3, <3>1, ReadEffect
  <2>5. 18 \in {18, 19, 21} /\ r - 1 = 18
    BY <1>9
  <2>6. InRead(fdc', irq_received', c, 18)
    BY <2>3, <2>4, <2>5, ReadPhases
  <2>. QED
    BY <1>4, <1>9, <2>4, <2>5, <2>6
<1>10. CASE r = 18
  <2>1. Head(todo) = Out(DOR, 4)
    BY <1>10 DEF IsReadStep
  <2>2. WritesDor(4) /\ 4 \in {0, 4, 12, 28} /\ 4 # 0
    <3>1. WritesDor(4)
      BY <2>1, Performed
    <3>. QED
      BY <3>1
  <2>3. ~irq_received /\ Settled(fdc, 0) /\ fdc.dor = 28
    <3>1. r \in {18, 19, 21}
      BY <1>10
    <3>. QED
      BY <3>1, ReadPhases
  <2>4. /\ Typed(fdc') /\ fdc'.dor = 4 /\ dma' = dma /\ cyl' = cyl
        /\ irq_received' = irq_received /\ Settled(fdc', 0)
    BY <2>2, <2>3, DorEffect
  <2>5. InRead(fdc', irq_received', c, 17)
    BY <2>3, <2>4, ReadPhases
  <2>6. r - 1 = 17
    BY <1>10
  <2>7. InRead(fdc', irq_received', c, r - 1)
    BY <2>5, <2>6
  <2>. QED
    BY <1>4, <1>10, <2>4, <2>7
<1>11. CASE r = 17
  <2>1. Head(todo) = Do("sleep")
    BY <1>11 DEF IsReadStep
  <2>2. fdc' = fdc /\ dma' = dma /\ cyl' = cyl /\ irq_received' = irq_received
    BY <2>1, Performed DEF Sleeps
  <2>3. ~irq_received /\ Settled(fdc, 0) /\ fdc.dor = 4
    BY <1>11, ReadPhases
  <2>4. InReset(fdc, irq_received, 16)
    BY <2>3, ResetPhases
  <2>5. InRead(fdc, irq_received, c, 16) /\ r - 1 = 16
    BY <1>11, <2>3, <2>4, ReadPhases
  <2>. QED
    BY <1>4, <1>11, <2>2, <2>5
<1>12. CASE r <= 16
  <2>1. r \in 1..16 /\ r - 1 \in 0..15
    BY <1>12
  <2>2. InReset(fdc, irq_received, r)
    <3>1. CASE r = 16
      BY <3>1, ReadPhases
    <3>2. CASE r # 16
      <4>1. r \in 0..15
        BY <2>1, <3>2
      <4>. QED
        BY <4>1, ReadPhases
    <3>. QED
      BY <3>1, <3>2
  <2>3. IsResetStep(Head(todo), r)
    BY <1>12 DEF IsReadStep
  <2>4. /\ Typed(fdc') /\ cyl' \in 0..255 /\ irq_received' \in BOOLEAN /\ dma' = dma
        /\ InReset(fdc', irq_received', r - 1)
    BY <2>1, <2>2, <2>3, ResetEffect
  <2>5. InRead(fdc', irq_received', c, r - 1)
    BY <2>1, <2>4, ReadPhases
  <2>. QED
    BY <1>4, <1>12, <2>4, <2>5
<1>. QED
  BY <1>1, <1>2, <1>3, <1>5, <1>6, <1>7, <1>8, <1>9, <1>10, <1>11, <1>12

-----------------------------------------------------------------------------
(* The steps of the driver between two decisions keep the invariant.       *)

LEMMA Programs ==
  ASSUME NEW c \in Places
  PROVE  /\ Program("calibrate", c) = InstallSteps
         /\ Program("calibrated", c) = HeadMoves(CalibrateCommand)
         /\ Program("seek", c) = flpydsk_control_motor(TRUE)
         /\ Program("sought", c) = HeadMoves(SeekCommand(c))
         /\ Program("read", c) = ReadSteps(c)
         /\ Program("idle", c) = flpydsk_control_motor(FALSE)
         /\ Program("boot", c) = <<>>
BY DEF Program

LEMMA ProgramLists ==
  ASSUME NEW c \in Places
  PROVE  /\ IsList(InstallSteps, 22) /\ IsList(HeadMoves(CalibrateCommand), 7)
         /\ IsList(HeadMoves(SeekCommand(c)), 8) /\ IsList(ReadSteps(c), 51)
         /\ \A b \in BOOLEAN : IsList(flpydsk_control_motor(b), 2)
         /\ IsList(<<>>, 0)
<1>1. IsList(HeadMoves(CalibrateCommand), 7)
  <2>1. IsList(HeadMoves(CalibrateCommand), 2 + 5)
    BY Commands, HeadSteps
  <2>. QED
    BY <2>1
<1>2. IsList(HeadMoves(SeekCommand(c)), 8)
  <2>1. IsList(HeadMoves(SeekCommand(c)), 3 + 5)
    BY Commands, HeadSteps
  <2>. QED
    BY <2>1
<1>3. IsList(<<>>, 0)
  BY DEF IsList
<1>. QED
  BY <1>1, <1>2, <1>3, InstallIs, ReadIs, MotorSteps

LEMMA PerformRest ==
  ASSUME Perform, todo \in Seq(Operation), NEW n \in Nat, NEW steps, IsList(steps, n),
         IsRest(todo, steps)
  PROVE  /\ Len(todo) \in 1..n /\ Head(todo) = Nth(steps, Len(todo))
         /\ Len(todo') = Len(todo) - 1 /\ todo' \in Seq(Operation) /\ IsRest(todo', steps)
BY PerformKeeps, TheRest

LEMMA FloppyInvImplies ==
  ASSUME FloppyInv
  PROVE  /\ Typed(fdc) /\ cyl \in 0..255 /\ irq_received \in BOOLEAN /\ dma \in DmaStates
         /\ chs \in Places /\ todo \in Seq(Operation)
         /\ IsRest(todo, Program(pc, chs)) /\ InPhase
BY DEF FloppyInv, TypeOK, Typed, Places

LEMMA Assembled ==
  ASSUME FloppyInv, Perform, Typed(fdc'), cyl' \in 0..255, irq_received' \in BOOLEAN,
         dma' \in DmaStates, todo' \in Seq(Operation), IsRest(todo', Program(pc, chs)), InPhase'
  PROVE  FloppyInv'
<1>1. /\ pc' = pc /\ chs' = chs /\ tries' = tries /\ ret' = ret /\ failed' = failed
  BY PerformKeeps
<1>2. TypeOK'
  BY <1>1 DEF FloppyInv, TypeOK, Typed
<1>3. IsRest(todo, Program(pc, chs))'
  BY <1>1
<1>4. NothingRead'
  BY <1>1 DEF FloppyInv, NothingRead
<1>. QED
  BY <1>2, <1>3, <1>4 DEF FloppyInv

LEMMA PerformInstall ==
  ASSUME Timeouts = FALSE, FloppyInv, Perform, pc = "calibrate"
  PROVE  FloppyInv'
<1>1. PICK r : r = Len(todo)
  OBVIOUS
<1>2. /\ Typed(fdc) /\ cyl \in 0..255 /\ irq_received \in BOOLEAN /\ dma \in DmaStates
      /\ chs \in Places /\ todo \in Seq(Operation) /\ IsRest(todo, Program(pc, chs)) /\ InPhase
  BY FloppyInvImplies
<1>3. Program(pc, chs) = InstallSteps /\ IsList(InstallSteps, 22)
  BY <1>2, Programs, ProgramLists
<1>4. /\ r \in 1..22 /\ Head(todo) = Nth(InstallSteps, r) /\ Len(todo') = r - 1
      /\ todo' \in Seq(Operation) /\ IsRest(todo', InstallSteps)
  BY <1>1, <1>2, <1>3, PerformRest
<1>5. IsInstallStep(Head(todo), r)
  BY <1>4, InstallIs
<1>6. InInstall(fdc, irq_received, r)
  BY <1>1, <1>2 DEF InPhase
<1>7. /\ Typed(fdc') /\ cyl' \in 0..255 /\ irq_received' \in BOOLEAN /\ dma' = dma
      /\ InInstall(fdc', irq_received', r - 1)
  BY <1>2, <1>4, <1>5, <1>6, InstallEffect
<1>8. InPhase'
  BY <1>4, <1>7, PerformKeeps DEF InPhase
<1>. QED
  BY <1>2, <1>3, <1>4, <1>7, <1>8, Assembled

LEMMA PerformCalibrate ==
  ASSUME Timeouts = FALSE, FloppyInv, Perform, pc = "calibrated"
  PROVE  FloppyInv'
<1>0. PICK s : s = CalibrateCommand
  OBVIOUS
<1>1. PICK r : r = Len(todo)
  OBVIOUS
<1>2. /\ Typed(fdc) /\ cyl \in 0..255 /\ irq_received \in BOOLEAN /\ dma \in DmaStates
      /\ chs \in Places /\ todo \in Seq(Operation) /\ IsRest(todo, Program(pc, chs)) /\ InPhase
  BY FloppyInvImplies
<1>3. Program(pc, chs) = HeadMoves(s) /\ IsList(HeadMoves(s), 7)
  BY <1>0, <1>2, Programs, ProgramLists
<1>4. /\ r \in 1..7 /\ Head(todo) = Nth(HeadMoves(s), r) /\ Len(todo') = r - 1
      /\ todo' \in Seq(Operation) /\ IsRest(todo', HeadMoves(s))
  BY <1>1, <1>2, <1>3, PerformRest
<1>5. IsHeadStep(Head(todo), s, r)
  <2>1. IsBytes(s, 2) /\ r \in 1..(2 + 5)
    BY <1>0, <1>4, Commands
  <2>. QED
    BY <1>4, <2>1, HeadSteps
<1>6. InHeadMoves(fdc, irq_received, s, r)
  BY <1>0, <1>1, <1>2 DEF InPhase
<1>7. /\ Typed(fdc') /\ cyl' \in 0..255 /\ irq_received' \in BOOLEAN /\ dma' = dma
      /\ InHeadMoves(fdc', irq_received', s, r - 1) /\ (r = 1 => cyl' = fdc'.track)
  <2>1. /\ IsCommand(s, 2) /\ Begins(s, CALIBRATE) /\ 2 \in 2..3 /\ r \in 1..(2 + 5)
        /\ CALIBRATE \in {SEEK, CALIBRATE}
    BY <1>0, <1>4, CommandsAre
  <2>. QED
    BY <1>2, <1>5, <1>6, <2>1, HeadEffect
<1>8. InPhase'
  <2>1. r - 1 = 0 => cyl' = fdc'.track
    BY <1>4, <1>7
  <2>. QED
    BY <1>0, <1>4, <1>7, <2>1, PerformKeeps DEF InPhase
<1>. QED
  BY <1>2, <1>3, <1>4, <1>7, <1>8, Assembled

LEMMA PerformSeek ==
  ASSUME Timeouts = FALSE, FloppyInv, Perform, pc = "sought"
  PROVE  FloppyInv'
<1>0. PICK s : s = SeekCommand(chs)
  OBVIOUS
<1>1. PICK r : r = Len(todo)
  OBVIOUS
<1>2. /\ Typed(fdc) /\ cyl \in 0..255 /\ irq_received \in BOOLEAN /\ dma \in DmaStates
      /\ chs \in Places /\ todo \in Seq(Operation) /\ IsRest(todo, Program(pc, chs)) /\ InPhase
  BY FloppyInvImplies
<1>3. Program(pc, chs) = HeadMoves(s) /\ IsList(HeadMoves(s), 8)
  BY <1>0, <1>2, Programs, ProgramLists
<1>4. /\ r \in 1..8 /\ Head(todo) = Nth(HeadMoves(s), r) /\ Len(todo') = r - 1
      /\ todo' \in Seq(Operation) /\ IsRest(todo', HeadMoves(s))
  BY <1>1, <1>2, <1>3, PerformRest
<1>5. IsHeadStep(Head(todo), s, r)
  <2>1. IsBytes(s, 3) /\ r \in 1..(3 + 5)
    BY <1>0, <1>2, <1>4, Commands
  <2>. QED
    BY <1>4, <2>1, HeadSteps
<1>6. InHeadMoves(fdc, irq_received, s, r)
  BY <1>0, <1>1, <1>2 DEF InPhase
<1>7. /\ Typed(fdc') /\ cyl' \in 0..255 /\ irq_received' \in BOOLEAN /\ dma' = dma
      /\ InHeadMoves(fdc', irq_received', s, r - 1) /\ (r = 1 => cyl' = fdc'.track)
  <2>1. /\ IsCommand(s, 3) /\ Begins(s, SEEK) /\ 3 \in 2..3 /\ r \in 1..(3 + 5)
        /\ SEEK \in {SEEK, CALIBRATE}
    BY <1>0, <1>2, <1>4, CommandsAre
  <2>. QED
    BY <1>2, <1>5, <1>6, <2>1, HeadEffect
<1>8. InPhase'
  <2>1. r - 1 = 0 => cyl' = fdc'.track
    BY <1>4, <1>7
  <2>. QED
    BY <1>0, <1>4, <1>7, <2>1, PerformKeeps DEF InPhase
<1>. QED
  BY <1>2, <1>3, <1>4, <1>7, <1>8, Assembled

\* InPhase while a sector is read.
LEMMA ReadingIs ==
  ASSUME pc = "read", NEW r, r = Len(todo)
  PROVE  InPhase <=> /\ InRead(fdc, irq_received, chs, r) /\ ChannelReady(dma, irq_received, r)
                     /\ r < 30 \/ (r = 30 /\ irq_received) => GotTheBlock
BY DEF InPhase, ChannelReady

LEMMA PerformRead ==
  ASSUME Timeouts = FALSE, FloppyInv, Perform, pc = "read"
  PROVE  FloppyInv'
<1>1. PICK r : r = Len(todo)
  OBVIOUS
<1>2. /\ Typed(fdc) /\ cyl \in 0..255 /\ irq_received \in BOOLEAN /\ dma \in DmaStates
      /\ chs \in Places /\ todo \in Seq(Operation) /\ IsRest(todo, Program(pc, chs)) /\ InPhase
  BY FloppyInvImplies
<1>3. Program(pc, chs) = ReadSteps(chs) /\ IsList(ReadSteps(chs), 51)
  BY <1>2, Programs, ProgramLists
<1>4. /\ r \in 1..51 /\ Head(todo) = Nth(ReadSteps(chs), r) /\ Len(todo') = r - 1
      /\ todo' \in Seq(Operation) /\ IsRest(todo', ReadSteps(chs))
  BY <1>1, <1>2, <1>3, PerformRest
<1>5. IsReadStep(Head(todo), chs, r)
  BY <1>2, <1>4, ReadIs
<1>6. /\ InRead(fdc, irq_received, chs, r) /\ ChannelReady(dma, irq_received, r)
      /\ r < 30 \/ (r = 30 /\ irq_received) => GotTheBlock
  BY <1>1, <1>2, ReadingIs
<1>7. /\ Typed(fdc') /\ cyl' \in 0..255 /\ irq_received' \in BOOLEAN /\ dma' \in DmaStates
      /\ InRead(fdc', irq_received', chs, r - 1) /\ ChannelReady(dma', irq_received', r - 1)
      /\ (r = 30 => irq_received) /\ (r = 31 => ~irq_received')
  BY <1>2, <1>4, <1>5, <1>6, SectorEffect
<1>8. r - 1 < 30 \/ (r - 1 = 30 /\ irq_received') => GotTheBlock'
  <2>1. r - 1 < 30 \/ (r - 1 = 30 /\ irq_received') => r < 30 \/ (r = 30 /\ irq_received)
    BY <1>4, <1>7
  <2>2. GotTheBlock' <=> GotTheBlock
    BY PerformKeeps DEF GotTheBlock
  <2>. QED
    BY <1>6, <2>1, <2>2
<1>9. InPhase'
  <2>1. pc' = "read" /\ chs' = chs
    BY PerformKeeps
  <2>. QED
    BY <1>4, <1>7, <1>8, <2>1 DEF InPhase, ChannelReady
<1>. QED
  BY <1>2, <1>3, <1>4, <1>7, <1>9, Assembled

LEMMA PerformMotorOn ==
  ASSUME Timeouts = FALSE, FloppyInv, Perform, pc = "seek"
  PROVE  FloppyInv'
<1>0. PICK s : s = flpydsk_control_motor(TRUE)
  OBVIOUS
<1>1. PICK r : r = Len(todo)
  OBVIOUS
<1>2. /\ Typed(fdc) /\ cyl \in 0..255 /\ irq_received \in BOOLEAN /\ dma \in DmaStates
      /\ chs \in Places /\ todo \in Seq(Operation) /\ IsRest(todo, Program(pc, chs)) /\ InPhase
  BY FloppyInvImplies
<1>3. Program(pc, chs) = s /\ IsList(s, 2)
  BY <1>0, <1>2, Programs, ProgramLists
<1>4. /\ r \in 1..2 /\ Head(todo) = Nth(s, r) /\ Len(todo') = r - 1
      /\ todo' \in Seq(Operation) /\ IsRest(todo', s)
  BY <1>1, <1>2, <1>3, PerformRest
<1>5. /\ Settled(fdc, 0) /\ ~irq_received /\ fdc.dor \in {4, 12, 28} /\ (r = 1 => fdc.dor = 28)
  BY <1>1, <1>2, <1>4 DEF InPhase
<1>6. /\ Typed(fdc') /\ dma' = dma /\ cyl' = cyl /\ irq_received' = irq_received
      /\ Settled(fdc', 0) /\ fdc'.dor = 28
  <2>1. CASE r = 2
    <3>1. Head(todo) = Out(DOR, 28)
      <4>1. TRUE \in BOOLEAN /\ (IF TRUE THEN 28 ELSE 4) = 28
        OBVIOUS
      <4>2. Nth(s, 2) = Out(DOR, 28)
        BY <1>0, <4>1, MotorSteps
      <4>. QED
        BY <1>4, <2>1, <4>2
    <3>2. WritesDor(28) /\ 28 \in {0, 4, 12, 28} /\ 28 # 0
      <4>1. WritesDor(28)
        BY <3>1, Performed
      <4>. QED
        BY <4>1
    <3>. QED
      BY <1>2, <1>5, <3>2, DorEffect
  <2>2. CASE r = 1
    <3>1. Head(todo) = Do("sleep")
      BY <1>0, <1>4, <2>2, MotorSteps
    <3>2. fdc' = fdc /\ dma' = dma /\ cyl' = cyl /\ irq_received' = irq_received
      BY <3>1, Performed DEF Sleeps
    <3>. QED
      BY <1>2, <1>5, <2>2, <3>2
  <2>. QED
    BY <1>4, <2>1, <2>2
<1>7. InPhase'
  BY <1>4, <1>5, <1>6, PerformKeeps DEF InPhase
<1>. QED
  BY <1>2, <1>3, <1>4, <1>6, <1>7, Assembled

LEMMA PerformMotorOff ==
  ASSUME Timeouts = FALSE, FloppyInv, Perform, pc = "idle"
  PROVE  FloppyInv'
<1>0. PICK s : s = flpydsk_control_motor(FALSE)
  OBVIOUS
<1>1. PICK r : r = Len(todo)
  OBVIOUS
<1>2. /\ Typed(fdc) /\ cyl \in 0..255 /\ irq_received \in BOOLEAN /\ dma \in DmaStates
      /\ chs \in Places /\ todo \in Seq(Operation) /\ IsRest(todo, Program(pc, chs)) /\ InPhase
  BY FloppyInvImplies
<1>3. Program(pc, chs) = s /\ IsList(s, 2)
  BY <1>0, <1>2, Programs, ProgramLists
<1>4. /\ r \in 1..2 /\ Head(todo) = Nth(s, r) /\ Len(todo') = r - 1
      /\ todo' \in Seq(Operation) /\ IsRest(todo', s)
  BY <1>1, <1>2, <1>3, PerformRest
<1>5. /\ Settled(fdc, 0) /\ ~irq_received /\ (ret = DMA_BUFFER => GotTheBlock)
      /\ (r = 2 => fdc.dor = 28)
      /\ (r = 1 => fdc.dor \in {4, 12} \/ (fdc.dor = 28 /\ ret = 0 /\ tries = Tries))
  <2>1. InIdle(r)
    BY <1>1, <1>2 DEF InPhase
  <2>2. r = 1 => r < 2
    OBVIOUS
  <2>. QED
    BY <2>1, <2>2 DEF InIdle
<1>6. /\ Typed(fdc') /\ dma' = dma /\ cyl' = cyl /\ irq_received' = irq_received
      /\ Settled(fdc', 0)
      /\ fdc'.dor \in {4, 12} \/ (fdc'.dor = 28 /\ ret = 0 /\ tries = Tries)
  <2>1. CASE r = 2
    <3>1. Head(todo) = Out(DOR, 4)
      <4>1. FALSE \in BOOLEAN /\ (IF FALSE THEN 28 ELSE 4) = 4
        OBVIOUS
      <4>2. Nth(s, 2) = Out(DOR, 4)
        BY <1>0, <4>1, MotorSteps
      <4>. QED
        BY <1>4, <2>1, <4>2
    <3>2. WritesDor(4) /\ 4 \in {0, 4, 12, 28} /\ 4 # 0
      <4>1. WritesDor(4)
        BY <3>1, Performed
      <4>. QED
        BY <4>1
    <3>3. fdc.dor \in {4, 12, 28}
      BY <1>5, <2>1
    <3>. QED
      BY <1>2, <1>5, <3>2, <3>3, DorEffect
  <2>2. CASE r = 1
    <3>1. Head(todo) = Do("sleep")
      BY <1>0, <1>4, <2>2, MotorSteps
    <3>2. fdc' = fdc /\ dma' = dma /\ cyl' = cyl /\ irq_received' = irq_received
      BY <3>1, Performed DEF Sleeps
    <3>. QED
      BY <1>2, <1>5, <2>2, <3>2
  <2>. QED
    BY <1>4, <2>1, <2>2
<1>7. InIdle(r - 1)'
  <2>1. ret' = ret /\ tries' = tries /\ GotTheBlock' = GotTheBlock
    BY PerformKeeps DEF GotTheBlock
  <2>2. r - 1 < 2
    BY <1>4
  <2>. QED
    BY <1>4, <1>5, <1>6, <2>1, <2>2 DEF InIdle
<1>8. InPhase'
  BY <1>1, <1>4, <1>7, PerformKeeps DEF InPhase
<1>. QED
  BY <1>2, <1>3, <1>4, <1>6, <1>8, Assembled

LEMMA PerformInv ==
  ASSUME Timeouts = FALSE, FloppyInv, Perform
  PROVE  FloppyInv'
<1>1. pc \in {"boot", "calibrate", "calibrated", "idle", "seek", "sought", "read"}
  BY DEF FloppyInv, TypeOK
<1>2. pc # "boot"
  <2>1. SUFFICES ASSUME pc = "boot" PROVE FALSE
    OBVIOUS
  <2>2. chs \in Places /\ todo \in Seq(Operation) /\ IsRest(todo, Program(pc, chs))
    BY FloppyInvImplies
  <2>3. IsRest(todo, <<>>) /\ IsList(<<>>, 0)
    BY <2>1, <2>2, Programs, ProgramLists
  <2>4. Len(todo) \in 1..0
    BY <2>2, <2>3, PerformRest
  <2>. QED
    BY <2>4
<1>. QED
  BY <1>1, <1>2, PerformInstall, PerformCalibrate, PerformSeek, PerformRead, PerformMotorOn,
     PerformMotorOff

-----------------------------------------------------------------------------
(* The steps of the controller keep it.  It only works where the driver    *)
(* waits for it.                                                           *)

LEMMA RestLength ==
  ASSUME NEW s \in Seq(Operation), NEW n \in Nat, NEW steps, IsList(steps, n), IsRest(s, steps)
  PROVE  Len(s) \in 0..n
<1>1. PICK r : r = Len(s)
  OBVIOUS
<1>2. r \in Nat /\ r <= n
  BY <1>1 DEF IsRest, IsList
<1>. QED
  BY <1>1, <1>2

LEMMA JobInReset ==
  ASSUME NEW f, NEW irq \in BOOLEAN, NEW r \in 0..16, InReset(f, irq, r), f.job # "none"
  PROVE  r = 14 /\ ~irq /\ Resets(f) /\ f.dor = 12
<1>1. \A n : ~Settled(f, n)
  BY DEF Settled
<1>2. r = 14 /\ ~irq /\ Resets(f)
  BY <1>1 DEF InReset
<1>. QED
  BY <1>2, ResetPhases

LEMMA JobInInstall ==
  ASSUME NEW f, NEW irq \in BOOLEAN, NEW r \in 0..22, InInstall(f, irq, r), f.job # "none"
  PROVE  r = 20 /\ ~irq /\ Resets(f) /\ f.dor = 12
<1>1. CASE r > 6
  <2>1. PICK q : q = r - 6
    OBVIOUS
  <2>2. q \in 0..16 /\ (q = 14 => r = 20)
    BY <1>1, <2>1
  <2>3. InReset(f, irq, q)
    BY <1>1, <2>1 DEF InInstall
  <2>. QED
    BY <2>2, <2>3, JobInReset
<1>2. CASE r <= 6
  <2>1. r \in {6, 2, 1, 0} \/ r \in 3..5
    BY <1>2
  <2>. QED
    BY <1>2, <2>1 DEF InInstall, Settled, Gets
<1>. QED
  BY <1>1, <1>2

LEMMA JobInHeadMoves ==
  ASSUME NEW f, NEW irq \in BOOLEAN, NEW k \in 2..3, NEW command, IsBytes(command, k),
         NEW r \in 0..(k + 5), InHeadMoves(f, irq, command, r), f.job # "none"
  PROVE  r = 5 /\ ~irq /\ Executes(f, command) /\ f.dor = 28
BY DEF InHeadMoves, Settled, Gets

LEMMA JobInRead ==
  ASSUME NEW f, NEW irq \in BOOLEAN, NEW c, NEW r \in 0..51, InRead(f, irq, c, r), f.job # "none"
  PROVE  /\ ~irq
         /\ \/ r = 30 /\ Executes(f, ReadCommand(c)) /\ f.dor = 28
            \/ r = 14 /\ Resets(f) /\ f.dor = 12
<1>1. CASE r \in 17..51
  <2>1. r \in 40..51 \/ r \in 31..39 \/ r = 30 \/ r = 29 \/ r \in 22..28
        \/ r \in {17, 18, 19, 21} \/ r = 20
    BY <1>1
  <2>2. r = 30
    BY <2>1 DEF InRead, Settled, Gets, Reports
  <2>3. f.dor = 28 /\ (irq => Reports(f, 7)) /\ (~irq => Executes(f, ReadCommand(c)))
    BY <2>2, ReadPhases
  <2>. QED
    BY <2>2, <2>3 DEF Reports
<1>2. CASE r \in 0..16
  <2>1. InReset(f, irq, r)
    BY <1>2 DEF InRead
  <2>. QED
    BY <1>2, <2>1, JobInReset
<1>. QED
  BY <1>1, <1>2

LEMMA Jobs ==
  ASSUME FloppyInv, fdc.job # "none"
  PROVE  /\ ~irq_received
         /\ \/ pc = "calibrate" /\ Len(todo) = 20 /\ Resets(fdc) /\ fdc.dor = 12
            \/ pc = "calibrated" /\ Len(todo) = 5 /\ Executes(fdc, CalibrateCommand) /\ fdc.dor = 28
            \/ pc = "sought" /\ Len(todo) = 5 /\ Executes(fdc, SeekCommand(chs)) /\ fdc.dor = 28
            \/ pc = "read" /\ Len(todo) = 30 /\ Executes(fdc, ReadCommand(chs)) /\ fdc.dor = 28
            \/ pc = "read" /\ Len(todo) = 14 /\ Resets(fdc) /\ fdc.dor = 12
<1>1. PICK r : r = Len(todo)
  OBVIOUS
<1>2. /\ irq_received \in BOOLEAN /\ chs \in Places /\ todo \in Seq(Operation)
      /\ IsRest(todo, Program(pc, chs)) /\ InPhase
  BY FloppyInvImplies
<1>3. pc \in {"boot", "calibrate", "calibrated", "idle", "seek", "sought", "read"}
  BY DEF FloppyInv, TypeOK
<1>4. pc \notin {"boot", "idle", "seek"}
  BY <1>2 DEF InPhase, InIdle, Settled
<1>5. CASE pc = "calibrate"
  <2>1. r \in 0..22
    BY <1>1, <1>2, <1>5, Programs, ProgramLists, RestLength
  <2>2. InInstall(fdc, irq_received, r)
    BY <1>1, <1>2, <1>5 DEF InPhase
  <2>. QED
    BY <1>1, <1>2, <1>5, <2>1, <2>2, JobInInstall
<1>6. CASE pc = "calibrated"
  <2>1. r \in 0..7
    BY <1>1, <1>2, <1>6, Programs, ProgramLists, RestLength
  <2>2. InHeadMoves(fdc, irq_received, CalibrateCommand, r)
    BY <1>1, <1>2, <1>6 DEF InPhase
  <2>3. PICK k, command : k = 2 /\ command = CalibrateCommand
    OBVIOUS
  <2>4. k \in 2..3 /\ r \in 0..(k + 5) /\ IsBytes(command, k)
    BY <1>2, <2>1, <2>3, Commands
  <2>5. r = 5 /\ ~irq_received /\ Executes(fdc, command) /\ fdc.dor = 28
    BY <1>2, <2>2, <2>3, <2>4, JobInHeadMoves
  <2>. QED
    BY <1>1, <1>6, <2>3, <2>5
<1>7. CASE pc = "sought"
  <2>1. r \in 0..8
    BY <1>1, <1>2, <1>7, Programs, ProgramLists, RestLength
  <2>2. InHeadMoves(fdc, irq_received, SeekCommand(chs), r)
    BY <1>1, <1>2, <1>7 DEF InPhase
  <2>3. PICK k, command : k = 3 /\ command = SeekCommand(chs)
    OBVIOUS
  <2>4. k \in 2..3 /\ r \in 0..(k + 5) /\ IsBytes(command, k)
    BY <1>2, <2>1, <2>3, Commands
  <2>5. r = 5 /\ ~irq_received /\ Executes(fdc, command) /\ fdc.dor = 28
    BY <1>2, <2>2, <2>3, <2>4, JobInHeadMoves
  <2>. QED
    BY <1>1, <1>7, <2>3, <2>5
<1>8. CASE pc = "read"
  <2>1. r \in 0..51
    BY <1>1, <1>2, <1>8, Programs, ProgramLists, RestLength
  <2>2. InRead(fdc, irq_received, chs, r)
    BY <1>1, <1>2, <1>8 DEF InPhase
  <2>3. /\ ~irq_received
        /\ \/ r = 30 /\ Executes(fdc, ReadCommand(chs)) /\ fdc.dor = 28
           \/ r = 14 /\ Resets(fdc) /\ fdc.dor = 12
    BY <1>2, <2>1, <2>2, JobInRead
  <2>. QED
    BY <1>1, <1>8, <2>3
<1>. QED
  BY <1>3, <1>4, <1>5, <1>6, <1>7, <1>8

LEMMA ExecutesBegins ==
  ASSUME NEW f, NEW command, NEW k \in 1..9, IsCommand(command, k), NEW cmd,
         Begins(command, cmd), Executes(f, command)
  PROVE  f.args[1] = cmd /\ f.job = "command" /\ f.result = <<>> /\ f.sense = 0
<1>1. Len(command) = k /\ 1 \in 1..k
  BY DEF IsCommand, IsBytes
<1>2. \A i \in 1..k : f.args[i] = command[i] % 256
  BY <1>1 DEF Executes, Given
<1>. QED
  BY <1>1, <1>2 DEF Begins, Executes, Given

LEMMA ControllerKeeps ==
  ASSUME Controller
  PROVE  /\ fdc.job # "none" /\ todo' = todo /\ pc' = pc /\ chs' = chs /\ cyl' = cyl
         /\ tries' = tries /\ ret' = ret
BY DEF Controller, ResetDone, SeekDone, ReadDone, driverVars

LEMMA ControllerAssembled ==
  ASSUME FloppyInv, Controller, Typed(fdc'), irq_received' \in BOOLEAN, dma' \in DmaStates,
         failed' \in BOOLEAN, InPhase'
  PROVE  FloppyInv'
<1>1. /\ todo' = todo /\ pc' = pc /\ chs' = chs /\ cyl' = cyl /\ tries' = tries /\ ret' = ret
  BY ControllerKeeps
<1>2. TypeOK'
  BY <1>1 DEF FloppyInv, TypeOK, Typed
<1>3. IsRest(todo, Program(pc, chs))'
  BY <1>1 DEF FloppyInv
<1>4. NothingRead'
  BY <1>1 DEF FloppyInv, NothingRead
<1>. QED
  BY <1>2, <1>3, <1>4 DEF FloppyInv

\* The controller has ended a reset or a command, with s interrupts to be asked for.
LEMMA SettledAfter ==
  ASSUME Typed(fdc), fdc.result = <<>>, NEW s \in 0..4, NEW t \in 0..LastTrack,
         fdc' = Fdc(fdc.dor, <<>>, <<>>, "none", s, t)
  PROVE  Typed(fdc') /\ Settled(fdc', 3 * s) /\ fdc'.dor = fdc.dor
<1>1. fdc.dor \in 0..255
  BY FdcFields DEF Typed
<1>2. AreFields(fdc.dor, <<>>, <<>>, "none", s, t)
  BY <1>1 DEF AreFields
<1>3. fdc' \in FdcStates /\ Consists(fdc', fdc.dor, <<>>, <<>>, "none", s, t)
  BY <1>2, AnFdc
<1>4. PICK q, k : q = fdc'.result /\ k = fdc'.sense
  OBVIOUS
<1>5. q = <<>> /\ k = s /\ fdc'.job = "none" /\ fdc'.args = <<>>
  BY <1>3, <1>4 DEF Consists
<1>6. Len(q) = 0 /\ 3 * k + Len(q) = 3 * s
  BY <1>5
<1>7. Settled(fdc', 3 * s)
  BY <1>4, <1>5, <1>6 DEF Settled
<1>. QED
  BY <1>3, <1>7 DEF Typed, Consists

LEMMA ResetDoneInv ==
  ASSUME FloppyInv, ResetDone
  PROVE  FloppyInv'
<1>1. /\ Typed(fdc) /\ irq_received \in BOOLEAN /\ dma \in DmaStates /\ InPhase
      /\ failed \in BOOLEAN
  BY FloppyInvImplies DEF FloppyInv, TypeOK
<1>2. /\ fdc.job = "reset" /\ irq_received' = (irq_received \/ Bit(fdc.dor, 8))
      /\ fdc' = [[fdc EXCEPT !.sense = 4] EXCEPT !.job = "none"]
      /\ dma' = dma /\ memory' = memory /\ failed' = failed
  BY DEF ResetDone, Interrupt, Finish
<1>3. /\ todo' = todo /\ pc' = pc /\ chs' = chs /\ cyl' = cyl /\ tries' = tries /\ ret' = ret
      /\ fdc.job # "none" /\ Controller
  BY ControllerKeeps DEF Controller
<1>4. \/ pc = "calibrate" /\ Len(todo) = 20 /\ Resets(fdc) /\ fdc.dor = 12
      \/ pc = "read" /\ Len(todo) = 14 /\ Resets(fdc) /\ fdc.dor = 12
  BY <1>2, <1>3, Jobs DEF Executes
<1>5. irq_received' /\ irq_received' \in BOOLEAN
  BY <1>2, <1>4, Bits
<1>6. Typed(fdc') /\ Settled(fdc', 12) /\ fdc'.dor = 12
  <2>1. fdc = Fdc(fdc.dor, fdc.args, fdc.result, fdc.job, fdc.sense, fdc.track)
        /\ fdc.track \in 0..LastTrack
    BY <1>1, FdcFields DEF Typed
  <2>2. fdc.args = <<>> /\ fdc.result = <<>>
    BY <1>4 DEF Resets
  <2>3. fdc' = Fdc(fdc.dor, fdc.args, fdc.result, "none", 4, fdc.track)
    BY <1>2, <2>1 DEF Fdc
  <2>4. PICK s : s = 4
    OBVIOUS
  <2>5. fdc' = Fdc(fdc.dor, <<>>, <<>>, "none", s, fdc.track) /\ s \in 0..4 /\ 3 * s = 12
    BY <2>2, <2>3, <2>4
  <2>6. Typed(fdc') /\ Settled(fdc', 3 * s) /\ fdc'.dor = fdc.dor
    BY <1>1, <2>1, <2>2, <2>5, SettledAfter
  <2>. QED
    BY <1>4, <2>5, <2>6
<1>7. InReset(fdc', irq_received', 14)
  BY <1>5, <1>6, ResetPhases
<1>8. CASE pc = "calibrate" /\ Len(todo) = 20
  <2>1. PICK r : r = Len(todo)
    OBVIOUS
  <2>2. r \in 7..22 /\ r - 6 = 14
    BY <1>8, <2>1
  <2>3. InInstall(fdc', irq_received', r)
    BY <1>5, <1>7, <2>2, InstallPhases
  <2>4. InPhase'
    BY <1>3, <1>8, <2>1, <2>3 DEF InPhase
  <2>. QED
    BY <1>1, <1>2, <1>3, <1>5, <1>6, <2>4, ControllerAssembled
<1>9. CASE pc = "read" /\ Len(todo) = 14
  <2>1. PICK r : r = Len(todo)
    OBVIOUS
  <2>2. r \in 0..15 /\ r < 30 /\ r = 14
    BY <1>9, <2>1
  <2>3. InRead(fdc', irq_received', chs, r)
    BY <1>5, <1>7, <2>2, ReadPhases
  <2>4. GotTheBlock'
    <3>1. GotTheBlock
      BY <1>1, <1>9, <2>1, <2>2, ReadingIs
    <3>. QED
      BY <1>2, <1>3, <3>1 DEF GotTheBlock
  <2>5. InPhase'
    BY <1>3, <1>9, <2>1, <2>2, <2>3, <2>4 DEF InPhase
  <2>. QED
    BY <1>1, <1>2, <1>3, <1>5, <1>6, <2>5, ControllerAssembled
<1>. QED
  BY <1>4, <1>8, <1>9

LEMMA SeekDoneInv ==
  ASSUME FloppyInv, SeekDone
  PROVE  FloppyInv'
<1>1. /\ Typed(fdc) /\ irq_received \in BOOLEAN /\ dma \in DmaStates /\ InPhase
      /\ failed \in BOOLEAN /\ chs \in Places
  BY FloppyInvImplies DEF FloppyInv, TypeOK
<1>2. /\ fdc.job = "command" /\ fdc.args[1] \in {SEEK, CALIBRATE}
      /\ irq_received' = (irq_received \/ Bit(fdc.dor, 8))
      /\ dma' = dma /\ memory' = memory /\ failed' = failed
  BY DEF SeekDone, Interrupt
<1>3. PICK t \in 0..LastTrack :
        fdc' = [[fdc EXCEPT !.args = <<>>, !.sense = 1, !.track = t] EXCEPT !.job = "none"]
  BY DEF SeekDone, Finish
<1>4. /\ todo' = todo /\ pc' = pc /\ chs' = chs /\ cyl' = cyl /\ tries' = tries /\ ret' = ret
      /\ fdc.job # "none" /\ Controller
  BY ControllerKeeps DEF Controller
<1>5. ~Executes(fdc, ReadCommand(chs)) /\ ~Resets(fdc)
  <2>1. READ_SECT \notin {SEEK, CALIBRATE}
    BY DEF READ_SECT, SEEK, CALIBRATE
  <2>2. Executes(fdc, ReadCommand(chs)) => fdc.args[1] = READ_SECT
    BY <1>1, CommandsAre, ExecutesBegins
  <2>. QED
    BY <1>2, <2>1, <2>2 DEF Resets
<1>6. PICK command, r :
        r = Len(todo) /\ command = IF pc = "calibrated" THEN CalibrateCommand ELSE SeekCommand(chs)
  OBVIOUS
<1>7. pc \in {"calibrated", "sought"} /\ r = 5 /\ Executes(fdc, command) /\ fdc.dor = 28
  BY <1>4, <1>5, <1>6, Jobs
<1>8. PICK k \in 2..3 : IsBytes(command, k)
  BY <1>1, <1>6, Commands
<1>9. irq_received' /\ irq_received' \in BOOLEAN
  BY <1>2, <1>7, Bits
<1>10. Typed(fdc') /\ Settled(fdc', 3) /\ fdc'.dor = 28
  <2>1. fdc = Fdc(fdc.dor, fdc.args, fdc.result, fdc.job, fdc.sense, fdc.track)
    BY <1>1, FdcFields DEF Typed
  <2>2. fdc.result = <<>>
    BY <1>7 DEF Executes, Given
  <2>3. fdc' = Fdc(fdc.dor, <<>>, fdc.result, "none", 1, t)
    BY <1>3, <2>1 DEF Fdc
  <2>4. PICK s : s = 1
    OBVIOUS
  <2>5. fdc' = Fdc(fdc.dor, <<>>, <<>>, "none", s, t) /\ s \in 0..4 /\ 3 * s = 3
    BY <2>2, <2>3, <2>4
  <2>6. Typed(fdc') /\ Settled(fdc', 3 * s) /\ fdc'.dor = fdc.dor
    BY <1>1, <2>2, <2>5, SettledAfter
  <2>. QED
    BY <1>7, <2>5, <2>6
<1>11. InHeadMoves(fdc', irq_received', command, r)
  <2>1. InHeadMoves(fdc', irq_received', command, 5)
    BY <1>8, <1>9, <1>10, HeadPhases
  <2>. QED
    BY <1>7, <2>1
<1>12. InPhase'
  <2>1. Len(todo') = r /\ r # 0 /\ pc' = pc /\ chs' = chs
    BY <1>4, <1>6, <1>7
  <2>2. CASE pc = "calibrated"
    BY <1>6, <1>11, <2>1, <2>2 DEF InPhase
  <2>3. CASE pc = "sought"
    BY <1>6, <1>11, <2>1, <2>3 DEF InPhase
  <2>. QED
    BY <1>7, <2>2, <2>3
<1>. QED
  BY <1>1, <1>2, <1>4, <1>9, <1>10, <1>12, ControllerAssembled

LEMMA PairIs ==
  ASSUME NEW pair \in Pairs, NEW a, NEW b, pair[1] = a, pair[2] = b
  PROVE  pair = <<a, b>>
<1>1. pair = [i \in 1..2 |-> pair[i]]
  BY DEF Pairs
<1>2. DOMAIN pair = 1..2 /\ <<a, b>> = [i \in 1..2 |-> <<a, b>>[i]]
  BY DEF Pairs
<1>3. \A i \in 1..2 : pair[i] = <<a, b>>[i]
  OBVIOUS
<1>. QED
  BY <1>1, <1>2, <1>3

\* The driver has programmed the channel: it moves a sector to DMA_BUFFER.
LEMMA ItMoves ==
  ASSUME NEW d \in DmaStates, Programmed(d, 30)
  PROVE  Moves(d, DMA_BUFFER, SectorSize) /\ AfterTransfer(d) \in DmaStates
<1>1. PICK m, h, o, p, a, c : Holds(d, m, h, o, p, a, c)
  BY DEF Holds
<1>2. d = Chip(m, h, o, p, a, c) /\ AreRegisters(m, h, o, p, a, c)
  BY <1>1, ChipFields DEF Holds
<1>3. Good(d, 7)
  <2>1. 30 \in 30..40
    OBVIOUS
  <2>. QED
    BY <2>1, ProgrammedAt
<1>4. /\ 2 \notin d.masked /\ d.mode = 70 /\ d.address[1] = 0 /\ d.address[2] = 0
      /\ d.page = 2 /\ d.count[1] = 255 /\ d.count[2] = 1
  BY <1>3 DEF Good
<1>5. d.address \in Pairs /\ d.count \in Pairs
  BY <1>1, <1>2 DEF AreRegisters, Pairs, Holds
<1>6. d.address = <<0, 0>> /\ d.count = <<255, 1>>
  BY <1>4, <1>5, PairIs
<1>7. /\ Byte(131072, 0) = 0 /\ Byte(131072, 1) = 0 /\ Byte(131072, 2) = 2
      /\ Byte(511, 0) = 255 /\ Byte(511, 1) = 1
  BY DEF Byte
<1>8. DMA_BUFFER = 131072 /\ SectorSize - 1 = 511 /\ 2 + ReadTransfer + TransferSingle = 70
  BY DEF DMA_BUFFER, SectorSize, ReadTransfer, TransferSingle
<1>9. Moves(d, DMA_BUFFER, SectorSize)
  BY <1>4, <1>6, <1>7, <1>8 DEF Moves
<1>10. PICK n : n = m \cup {2}
  OBVIOUS
<1>11. AfterTransfer(d) = Chip(n, h, o, p, a, c)
  BY <1>1, <1>2, <1>10 DEF AfterTransfer, Chip, Holds
<1>12. AreRegisters(n, h, o, p, a, c)
  BY <1>2, <1>10 DEF AreRegisters
<1>. QED
  BY <1>9, <1>11, <1>12, AChip

\* What a read command asks for.
LEMMA AskedIs ==
  ASSUME Executes(fdc, ReadCommand(chs)), chs \in Places
  PROVE  Asked = chs
<1>1. IsBytes(ReadCommand(chs), 9)
  BY Commands
<1>2. \A i \in 1..9 : fdc.args[i] = ReadCommand(chs)[i] % 256
  BY <1>1 DEF Executes, Given, IsBytes
<1>3. /\ ReadCommand(chs)[3] = chs.track /\ ReadCommand(chs)[4] = chs.head
      /\ ReadCommand(chs)[5] = chs.sector
  BY DEF ReadCommand
<1>4. chs.head \in 0..255 /\ chs.track \in 0..255 /\ chs.sector \in 0..255
      /\ chs = [head |-> chs.head, track |-> chs.track, sector |-> chs.sector]
  BY DEF Places
<1>5. \A b \in 0..255 : b % 256 = b
  OBVIOUS
<1>6. fdc.args[3] = chs.track /\ fdc.args[4] = chs.head /\ fdc.args[5] = chs.sector
  BY <1>2, <1>3, <1>4, <1>5
<1>. QED
  BY <1>4, <1>6 DEF Asked

LEMMA ReadDoneInv ==
  ASSUME FloppyInv, ReadDone
  PROVE  FloppyInv'
<1>1. /\ Typed(fdc) /\ irq_received \in BOOLEAN /\ dma \in DmaStates /\ InPhase
      /\ failed \in BOOLEAN /\ chs \in Places
  BY FloppyInvImplies DEF FloppyInv, TypeOK
<1>2. /\ fdc.job = "command" /\ fdc.args[1] = READ_SECT
      /\ irq_received' = (irq_received \/ Bit(fdc.dor, 8))
  BY DEF ReadDone, Interrupt
<1>3. PICK q : q = [i \in 1..7 |-> i]
  OBVIOUS
<1>4. fdc' = [[fdc EXCEPT !.args = <<>>, !.result = q] EXCEPT !.job = "none"]
  BY <1>3 DEF ReadDone, Finish
<1>5. \/ /\ failed' = FALSE /\ dma' = AfterTransfer(dma)
         /\ memory' = IF Moves(dma, DMA_BUFFER, SectorSize) THEN Asked ELSE memory
      \/ failed' = TRUE /\ memory' = memory /\ dma' = dma
  BY DEF ReadDone
<1>6. /\ todo' = todo /\ pc' = pc /\ chs' = chs /\ cyl' = cyl /\ tries' = tries /\ ret' = ret
      /\ fdc.job # "none" /\ Controller
  BY ControllerKeeps DEF Controller
<1>7. /\ pc = "read" /\ Len(todo) = 30 /\ Executes(fdc, ReadCommand(chs)) /\ fdc.dor = 28
      /\ ~irq_received
  <2>1. READ_SECT \notin {SEEK, CALIBRATE}
    BY DEF READ_SECT, SEEK, CALIBRATE
  <2>2. Executes(fdc, CalibrateCommand) => fdc.args[1] = CALIBRATE
    BY CommandsAre, ExecutesBegins
  <2>3. Executes(fdc, SeekCommand(chs)) => fdc.args[1] = SEEK
    BY <1>1, CommandsAre, ExecutesBegins
  <2>. QED
    BY <1>2, <1>6, <2>1, <2>2, <2>3, Jobs DEF Resets
<1>8. irq_received' /\ irq_received' \in BOOLEAN
  BY <1>2, <1>7, Bits
<1>9. Typed(fdc') /\ Reports(fdc', 7) /\ fdc'.dor = 28
  <2>1. fdc = Fdc(fdc.dor, fdc.args, fdc.result, fdc.job, fdc.sense, fdc.track)
        /\ fdc.dor \in 0..255 /\ fdc.track \in 0..LastTrack
    BY <1>1, FdcFields DEF Typed
  <2>2. fdc.sense = 0
    BY <1>7 DEF Executes, Given
  <2>3. fdc' = Fdc(fdc.dor, <<>>, q, "none", 0, fdc.track)
    BY <1>4, <2>1, <2>2 DEF Fdc
  <2>4. q \in Seq(0..255) /\ Len(q) = 7
    BY <1>3
  <2>5. AreFields(fdc.dor, <<>>, q, "none", 0, fdc.track)
    BY <2>1, <2>4 DEF AreFields
  <2>6. fdc' \in FdcStates /\ Consists(fdc', fdc.dor, <<>>, q, "none", 0, fdc.track)
    BY <2>3, <2>5, AnFdc
  <2>. QED
    BY <1>7, <2>4, <2>6 DEF Typed, Reports, Consists
<1>10. Programmed(dma, 30)
  <2>1. PICK r : r = Len(todo)
    OBVIOUS
  <2>2. ChannelReady(dma, irq_received, r) /\ r = 30
    BY <1>1, <1>7, <2>1, ReadingIs
  <2>. QED
    BY <1>7, <2>2 DEF ChannelReady
<1>11. /\ GotTheBlock' /\ dma' \in DmaStates /\ failed' \in BOOLEAN
  <2>1. Moves(dma, DMA_BUFFER, SectorSize) /\ AfterTransfer(dma) \in DmaStates
    BY <1>1, <1>10, ItMoves
  <2>2. Asked = chs
    BY <1>1, <1>7, AskedIs
  <2>3. CASE failed' = TRUE
    BY <1>1, <1>5, <2>1, <2>3 DEF GotTheBlock
  <2>4. CASE /\ failed' = FALSE /\ dma' = AfterTransfer(dma)
             /\ memory' = IF Moves(dma, DMA_BUFFER, SectorSize) THEN Asked ELSE memory
    BY <1>6, <2>1, <2>2, <2>4 DEF GotTheBlock
  <2>. QED
    BY <1>5, <2>3, <2>4
<1>12. InRead(fdc', irq_received', chs, 30)
  BY <1>8, <1>9, ReadPhases
<1>13. InPhase'
  <2>1. PICK r : r = Len(todo')
    OBVIOUS
  <2>2. r = 30 /\ ~(r > 30) /\ pc' = "read" /\ chs' = chs
    <3>1. r = Len(todo)
      BY <1>6, <2>1
    <3>2. r = 30
      BY <1>7, <3>1
    <3>3. ~(r > 30)
      BY <3>2
    <3>. QED
      BY <1>6, <1>7, <3>2, <3>3
  <2>3. InRead(fdc', irq_received', chs, r)
    BY <1>12, <2>2
  <2>. QED
    BY <1>8, <1>11, <2>1, <2>2, <2>3 DEF InPhase
<1>. QED
  BY <1>6, <1>8, <1>9, <1>11, <1>13, ControllerAssembled

LEMMA ControllerInv ==
  ASSUME FloppyInv, Controller
  PROVE  FloppyInv'
BY ResetDoneInv, SeekDoneInv, ReadDoneInv DEF Controller

-----------------------------------------------------------------------------
(* The decisions of the driver keep it.                                    *)

LEMMA NothingLeft ==
  ASSUME FloppyInv, NEW p, At(p)
  PROVE  pc = p /\ todo = <<>> /\ Len(todo) = 0
BY DEF At

\* A decision changes nothing of the devices.
LEMMA Decided ==
  ASSUME FloppyInv, Hardware, NEW n \in Nat, IsList(Program(pc', chs'), n),
         todo' = <<>> \/ todo' = Program(pc', chs'), chs' \in Places, cyl' = cyl,
         pc' \in {"boot", "calibrate", "calibrated", "idle", "seek", "sought", "read"},
         tries' \in 0..Tries, ret' \in {0, DMA_BUFFER}, InPhase', NothingRead'
  PROVE  FloppyInv'
<1>1. /\ irq_received' = irq_received /\ fdc' = fdc /\ dma' = dma /\ failed' = failed
  BY DEF Hardware, deviceVars
<1>2. todo' \in Seq(Operation) /\ IsRest(todo', Program(pc', chs'))
  <2>1. PICK steps : steps = Program(pc', chs')
    OBVIOUS
  <2>2. /\ IsRest(<<>>, steps) /\ IsRest(steps, steps) /\ steps \in Seq(Operation)
        /\ <<>> \in Seq(Operation)
    BY <2>1, NoRest
  <2>. QED
    BY <2>1, <2>2
<1>3. TypeOK'
  BY <1>1, <1>2 DEF FloppyInv, TypeOK, Places
<1>. QED
  BY <1>2, <1>3 DEF FloppyInv

LEMMA CastIsPlace ==
  ASSUME NEW lba \in Int
  PROVE  Cast(flpydsk_lba_to_chs(lba)) \in Places
<1>1. PICK h, t, s : /\ h = CDiv(CMod(lba, FLPY_SECTORS_PER_TRACK * 2), FLPY_SECTORS_PER_TRACK)
                     /\ t = CDiv(lba, FLPY_SECTORS_PER_TRACK * 2)
                     /\ s = CMod(lba, FLPY_SECTORS_PER_TRACK) + 1
  OBVIOUS
<1>2. h \in Int /\ t \in Int /\ s \in Int
  <2>1. FLPY_SECTORS_PER_TRACK = 18
    BY DEF FLPY_SECTORS_PER_TRACK
  <2>2. \A a \in Int : /\ CDiv(a, 18) \in Int /\ CDiv(a, 36) \in Int
                       /\ CMod(a, 18) \in Int /\ CMod(a, 36) \in Int
    BY DEF CDiv, CMod
  <2>. QED
    BY <1>1, <2>1, <2>2
<1>3. PICK loc : loc = [head |-> h, track |-> t, sector |-> s]
  OBVIOUS
<1>4. flpydsk_lba_to_chs(lba) = loc
  BY <1>1, <1>3 DEF flpydsk_lba_to_chs
<1>5. DOMAIN loc = {"head", "track", "sector"} /\ \A i \in DOMAIN loc : loc[i] \in Int
  BY <1>2, <1>3
<1>6. Cast(loc) \in [{"head", "track", "sector"} -> 0..255]
  <2>1. \A i \in DOMAIN loc : loc[i] % 256 \in 0..255
    BY <1>5
  <2>. QED
    BY <1>5, <2>1 DEF Cast
<1>7. [{"head", "track", "sector"} -> 0..255] \subseteq Places
  BY DEF Places
<1>. QED
  BY <1>4, <1>6, <1>7

LEMMA InstallInv ==
  ASSUME FloppyInv, flpydsk_install
  PROVE  FloppyInv'
<1>1. /\ Typed(fdc) /\ cyl \in 0..255 /\ irq_received \in BOOLEAN /\ chs \in Places /\ InPhase
      /\ tries \in 0..Tries /\ ret \in {0, DMA_BUFFER} /\ ret = 0
  BY FloppyInvImplies DEF FloppyInv, TypeOK, NothingRead, flpydsk_install, At
<1>2. /\ pc = "boot" /\ todo = <<>> /\ pc' = "calibrate" /\ tries' = 0 /\ todo' = InstallSteps
      /\ chs' = chs /\ cyl' = cyl /\ ret' = ret /\ Hardware
  BY DEF flpydsk_install, At
<1>3. irq_received' = irq_received /\ fdc' = fdc
  BY <1>2 DEF Hardware, deviceVars
<1>4. Program(pc', chs') = InstallSteps /\ IsList(InstallSteps, 22) /\ Len(InstallSteps) = 22
  BY <1>1, <1>2, Programs, ProgramLists DEF IsList
<1>5. Settled(fdc, 0) /\ ~irq_received
  BY <1>1, <1>2 DEF InPhase
<1>6. PICK r : r = Len(todo')
  OBVIOUS
<1>7. r = 22 /\ r \in 7..22 /\ r - 6 = 16
  BY <1>2, <1>4, <1>6
<1>8. InReset(fdc, irq_received, 16)
  BY <1>1, <1>5, ResetPhases
<1>9. InInstall(fdc, irq_received, r)
  <2>1. InReset(fdc, irq_received, r - 6)
    BY <1>7, <1>8
  <2>. QED
    BY <1>1, <1>7, <2>1, InstallPhases
<1>10. InPhase'
  BY <1>2, <1>3, <1>6, <1>9 DEF InPhase
<1>11. tries' \in 0..Tries
  BY <1>2, FloppyAssumption
<1>. QED
  BY <1>1, <1>2, <1>4, <1>10, <1>11, Decided DEF NothingRead

LEMMA CalibrateInv ==
  ASSUME FloppyInv, flpydsk_calibrate
  PROVE  FloppyInv'
<1>1. /\ Typed(fdc) /\ cyl \in 0..255 /\ irq_received \in BOOLEAN /\ chs \in Places /\ InPhase
      /\ tries \in 0..Tries /\ ret \in {0, DMA_BUFFER} /\ ret = 0
  BY FloppyInvImplies DEF FloppyInv, TypeOK, NothingRead, flpydsk_calibrate, At
<1>2. /\ pc = "calibrate" /\ todo = <<>> /\ chs' = chs /\ cyl' = cyl /\ ret' = ret /\ Hardware
      /\ \/ /\ tries < Tries /\ pc' = "calibrated" /\ tries' = tries + 1
            /\ todo' = HeadMoves(CalibrateCommand)
         \/ pc' = "idle" /\ todo' = flpydsk_control_motor(FALSE) /\ tries' = tries
  BY DEF flpydsk_calibrate, At
<1>3. irq_received' = irq_received /\ fdc' = fdc /\ DMA_BUFFER # 0
  BY <1>2 DEF Hardware, deviceVars, DMA_BUFFER
<1>4. Settled(fdc, 0) /\ ~irq_received /\ fdc.dor = 28
  <2>1. InInstall(fdc, irq_received, 0)
    <3>1. Len(todo) = 0
      BY <1>2
    <3>. QED
      BY <1>1, <1>2, <3>1 DEF InPhase
  <2>. QED
    BY <1>1, <2>1, InstallPhases
<1>5. CASE /\ tries < Tries /\ pc' = "calibrated" /\ tries' = tries + 1
           /\ todo' = HeadMoves(CalibrateCommand)
  <2>1. PICK s : s = CalibrateCommand
    OBVIOUS
  <2>2. /\ Program(pc', chs') = HeadMoves(s) /\ IsList(HeadMoves(s), 7) /\ Len(HeadMoves(s)) = 7
        /\ IsBytes(s, 2)
    BY <1>1, <1>2, <1>5, <2>1, Programs, ProgramLists, Commands DEF IsList
  <2>3. PICK r : r = Len(todo')
    OBVIOUS
  <2>4. r = 7 /\ r # 0 /\ r \in 6..(2 + 5) /\ 2 + 5 - r = 0
    BY <1>5, <2>1, <2>2, <2>3
  <2>5. InHeadMoves(fdc, irq_received, s, r)
    <3>1. Gets(fdc, s, 2 + 5 - r)
      BY <1>1, <1>4, <2>4, SettledZero
    <3>2. PICK k : k = 2
      OBVIOUS
    <3>3. Gets(fdc, s, k + 5 - r) /\ k \in 2..3 /\ r \in 6..(k + 5) /\ IsBytes(s, k)
      BY <2>2, <2>4, <3>1, <3>2
    <3>. QED
      BY <1>1, <1>4, <3>3, HeadPhases
  <2>6. InPhase'
    BY <1>2, <1>3, <1>5, <2>1, <2>3, <2>4, <2>5 DEF InPhase
  <2>7. tries' \in 0..Tries
    BY <1>1, <1>5, FloppyAssumption
  <2>. QED
    BY <1>1, <1>2, <1>5, <2>1, <2>2, <2>6, <2>7, Decided DEF NothingRead
<1>6. CASE pc' = "idle" /\ todo' = flpydsk_control_motor(FALSE) /\ tries' = tries
  <2>1. PICK s : s = flpydsk_control_motor(FALSE)
    OBVIOUS
  <2>2. Program(pc', chs') = s /\ IsList(s, 2) /\ Len(s) = 2
    BY <1>1, <1>2, <1>6, <2>1, Programs, ProgramLists DEF IsList
  <2>3. InIdle(2)'
    BY <1>1, <1>2, <1>3, <1>4 DEF InIdle
  <2>4. InPhase'
    BY <1>6, <2>1, <2>2, <2>3 DEF InPhase
  <2>. QED
    BY <1>1, <1>2, <1>6, <2>1, <2>2, <2>4, Decided DEF NothingRead
<1>. QED
  BY <1>2, <1>5, <1>6

LEMMA CalibrateTestInv ==
  ASSUME FloppyInv, CalibrateTest
  PROVE  FloppyInv' /\ (pc' = "idle" => fdc.track = 0)
<1>1. /\ Typed(fdc) /\ cyl \in 0..255 /\ irq_received \in BOOLEAN /\ chs \in Places /\ InPhase
      /\ tries \in 0..Tries /\ ret \in {0, DMA_BUFFER} /\ ret = 0
  BY FloppyInvImplies DEF FloppyInv, TypeOK, NothingRead, CalibrateTest, At
<1>2. /\ pc = "calibrated" /\ todo = <<>> /\ chs' = chs /\ cyl' = cyl /\ ret' = ret
      /\ tries' = tries /\ Hardware
      /\ \/ cyl = 0 /\ pc' = "idle" /\ todo' = flpydsk_control_motor(FALSE)
         \/ pc' = "calibrate" /\ todo' = todo
  BY DEF CalibrateTest, At, Calibrated
<1>3. irq_received' = irq_received /\ fdc' = fdc /\ DMA_BUFFER # 0
  BY <1>2 DEF Hardware, deviceVars, DMA_BUFFER
<1>4. Settled(fdc, 0) /\ ~irq_received /\ fdc.dor = 28 /\ cyl = fdc.track
  <2>1. Len(todo) = 0
    BY <1>2
  <2>2. InHeadMoves(fdc, irq_received, CalibrateCommand, 0) /\ cyl = fdc.track
    BY <1>1, <1>2, <2>1 DEF InPhase
  <2>3. PICK k, s : k = 2 /\ s = CalibrateCommand
    OBVIOUS
  <2>4. k \in 2..3 /\ IsBytes(s, k) /\ 0 \in 0..3 /\ InHeadMoves(fdc, irq_received, s, 0)
    BY <2>2, <2>3, Commands
  <2>. QED
    BY <1>1, <2>2, <2>4, HeadPhases
<1>5. CASE cyl = 0 /\ pc' = "idle" /\ todo' = flpydsk_control_motor(FALSE)
  <2>1. PICK s : s = flpydsk_control_motor(FALSE)
    OBVIOUS
  <2>2. Program(pc', chs') = s /\ IsList(s, 2) /\ Len(s) = 2
    BY <1>1, <1>2, <1>5, <2>1, Programs, ProgramLists DEF IsList
  <2>3. InIdle(2)'
    BY <1>1, <1>2, <1>3, <1>4 DEF InIdle
  <2>4. InPhase'
    BY <1>5, <2>1, <2>2, <2>3 DEF InPhase
  <2>5. FloppyInv'
    BY <1>1, <1>2, <1>5, <2>1, <2>2, <2>4, Decided DEF NothingRead
  <2>. QED
    BY <1>4, <1>5, <2>5
<1>6. CASE pc' = "calibrate" /\ todo' = todo
  <2>1. Program(pc', chs') = InstallSteps /\ IsList(InstallSteps, 22)
    BY <1>1, <1>2, <1>6, Programs, ProgramLists
  <2>2. InInstall(fdc, irq_received, 0)
    BY <1>1, <1>4, InstallPhases
  <2>3. Len(todo') = 0 /\ todo' = <<>>
    BY <1>2, <1>6
  <2>4. InPhase'
    BY <1>3, <1>6, <2>2, <2>3 DEF InPhase
  <2>5. FloppyInv'
    BY <1>1, <1>2, <1>6, <2>1, <2>3, <2>4, Decided DEF NothingRead
  <2>. QED
    BY <1>6, <2>5
<1>. QED
  BY <1>2, <1>5, <1>6

LEMMA ReadSectorInv ==
  ASSUME FloppyInv, NEW lba \in LBAs, flpydsk_read_sector(lba)
  PROVE  FloppyInv'
<1>1. /\ Typed(fdc) /\ cyl \in 0..255 /\ irq_received \in BOOLEAN /\ chs \in Places /\ InPhase
      /\ tries \in 0..Tries /\ ret \in {0, DMA_BUFFER}
  BY FloppyInvImplies DEF FloppyInv, TypeOK
<1>2. /\ pc = "idle" /\ todo = <<>> /\ pc' = "seek" /\ tries' = 0
      /\ chs' = Cast(flpydsk_lba_to_chs(lba)) /\ todo' = flpydsk_control_motor(TRUE)
      /\ cyl' = cyl /\ ret' = ret /\ Hardware
  BY DEF flpydsk_read_sector, At
<1>3. irq_received' = irq_received /\ fdc' = fdc
  BY <1>2 DEF Hardware, deviceVars
<1>4. chs' \in Places
  <2>1. lba \in Int
    BY FloppyAssumption
  <2>. QED
    BY <1>2, <2>1, CastIsPlace
<1>5. Settled(fdc, 0) /\ ~irq_received /\ fdc.dor \in {4, 12, 28}
  <2>1. Len(todo) = 0
    BY <1>2
  <2>2. InIdle(0)
    BY <1>1, <1>2, <2>1 DEF InPhase
  <2>. QED
    BY <2>2 DEF InIdle
<1>6. PICK s : s = flpydsk_control_motor(TRUE)
  OBVIOUS
<1>7. Program(pc', chs') = s /\ IsList(s, 2) /\ Len(s) = 2
  BY <1>2, <1>4, <1>6, Programs, ProgramLists DEF IsList
<1>8. InPhase'
  <2>1. PICK r : r = Len(todo')
    OBVIOUS
  <2>2. r = 2
    BY <1>2, <1>6, <1>7, <2>1
  <2>3. ~(r <= 1)
    BY <2>2
  <2>. QED
    BY <1>2, <1>3, <1>5, <2>1, <2>3 DEF InPhase
<1>9. tries' \in 0..Tries
  BY <1>2, FloppyAssumption
<1>. QED
  BY <1>1, <1>2, <1>4, <1>6, <1>7, <1>8, <1>9, Decided DEF NothingRead

LEMMA SeekInv ==
  ASSUME FloppyInv, flpydsk_seek
  PROVE  FloppyInv'
<1>1. /\ Typed(fdc) /\ cyl \in 0..255 /\ irq_received \in BOOLEAN /\ chs \in Places /\ InPhase
      /\ tries \in 0..Tries /\ ret \in {0, DMA_BUFFER}
  BY FloppyInvImplies DEF FloppyInv, TypeOK
<1>2. /\ pc = "seek" /\ todo = <<>> /\ chs' = chs /\ cyl' = cyl /\ Hardware
      /\ \/ /\ tries < Tries /\ pc' = "sought" /\ tries' = tries + 1 /\ ret' = ret
            /\ todo' = HeadMoves(SeekCommand(chs))
         \/ ~(tries < Tries) /\ pc' = "idle" /\ ret' = 0 /\ todo' = todo /\ tries' = tries
  BY DEF flpydsk_seek, At
<1>3. irq_received' = irq_received /\ fdc' = fdc /\ DMA_BUFFER # 0
  BY <1>2 DEF Hardware, deviceVars, DMA_BUFFER
<1>4. Settled(fdc, 0) /\ ~irq_received /\ fdc.dor = 28
  <2>1. Len(todo) = 0
    BY <1>2
  <2>. QED
    BY <1>1, <1>2, <2>1 DEF InPhase
<1>5. CASE /\ tries < Tries /\ pc' = "sought" /\ tries' = tries + 1 /\ ret' = ret
           /\ todo' = HeadMoves(SeekCommand(chs))
  <2>1. PICK s : s = SeekCommand(chs)
    OBVIOUS
  <2>2. /\ Program(pc', chs') = HeadMoves(s) /\ IsList(HeadMoves(s), 8) /\ Len(HeadMoves(s)) = 8
        /\ IsBytes(s, 3)
    BY <1>1, <1>2, <1>5, <2>1, Programs, ProgramLists, Commands DEF IsList
  <2>3. PICK r : r = Len(todo')
    OBVIOUS
  <2>4. r = 8 /\ r # 0 /\ 3 + 5 - r = 0
    BY <1>5, <2>1, <2>2, <2>3
  <2>5. InHeadMoves(fdc, irq_received, s, r)
    <3>1. Gets(fdc, s, 3 + 5 - r)
      BY <1>1, <1>4, <2>4, SettledZero
    <3>2. PICK k : k = 3
      OBVIOUS
    <3>3. Gets(fdc, s, k + 5 - r) /\ k \in 2..3 /\ r \in 6..(k + 5) /\ IsBytes(s, k)
      BY <2>2, <2>4, <3>1, <3>2
    <3>. QED
      BY <1>1, <1>4, <3>3, HeadPhases
  <2>6. InPhase'
    BY <1>2, <1>3, <1>5, <2>1, <2>3, <2>4, <2>5 DEF InPhase
  <2>7. tries' \in 0..Tries
    BY <1>1, <1>5, FloppyAssumption
  <2>. QED
    BY <1>1, <1>2, <1>5, <2>1, <2>2, <2>6, <2>7, Decided DEF NothingRead
<1>6. CASE ~(tries < Tries) /\ pc' = "idle" /\ ret' = 0 /\ todo' = todo /\ tries' = tries
  <2>1. PICK s : s = flpydsk_control_motor(FALSE)
    OBVIOUS
  <2>2. Program(pc', chs') = s /\ IsList(s, 2)
    BY <1>1, <1>2, <1>6, <2>1, Programs, ProgramLists
  <2>3. tries' = Tries
    BY <1>1, <1>6, FloppyAssumption
  <2>4. InIdle(0)'
    BY <1>3, <1>4, <1>6, <2>3 DEF InIdle
  <2>5. Len(todo') = 0 /\ todo' = <<>>
    BY <1>2, <1>6
  <2>6. InPhase'
    BY <1>6, <2>4, <2>5 DEF InPhase
  <2>. QED
    BY <1>1, <1>2, <1>6, <2>2, <2>5, <2>6, Decided DEF NothingRead
<1>. QED
  BY <1>2, <1>5, <1>6

LEMMA SeekTestInv ==
  ASSUME FloppyInv, SeekTest
  PROVE  FloppyInv' /\ (pc' = "read" => fdc.track = chs.track)
<1>1. /\ Typed(fdc) /\ cyl \in 0..255 /\ irq_received \in BOOLEAN /\ chs \in Places /\ InPhase
      /\ tries \in 0..Tries /\ ret \in {0, DMA_BUFFER} /\ dma \in DmaStates
  BY FloppyInvImplies DEF FloppyInv, TypeOK
<1>2. /\ pc = "sought" /\ todo = <<>> /\ chs' = chs /\ cyl' = cyl /\ ret' = ret
      /\ tries' = tries /\ Hardware
      /\ \/ cyl = chs.track /\ pc' = "read" /\ todo' = ReadSteps(chs)
         \/ pc' = "seek" /\ todo' = todo
  BY DEF SeekTest, At
<1>3. irq_received' = irq_received /\ fdc' = fdc /\ dma' = dma
  BY <1>2 DEF Hardware, deviceVars
<1>4. Settled(fdc, 0) /\ ~irq_received /\ fdc.dor = 28 /\ cyl = fdc.track
  <2>1. Len(todo) = 0
    BY <1>2
  <2>2. InHeadMoves(fdc, irq_received, SeekCommand(chs), 0) /\ cyl = fdc.track
    BY <1>1, <1>2, <2>1 DEF InPhase
  <2>3. PICK k, s : k = 3 /\ s = SeekCommand(chs)
    OBVIOUS
  <2>4. k \in 2..3 /\ IsBytes(s, k) /\ 0 \in 0..3 /\ InHeadMoves(fdc, irq_received, s, 0)
    BY <1>1, <2>2, <2>3, Commands
  <2>. QED
    BY <1>1, <2>2, <2>4, HeadPhases
<1>5. CASE cyl = chs.track /\ pc' = "read" /\ todo' = ReadSteps(chs)
  <2>1. PICK s : s = ReadSteps(chs)
    OBVIOUS
  <2>2. Program(pc', chs') = s /\ IsList(s, 51) /\ Len(s) = 51
    BY <1>1, <1>2, <1>5, <2>1, Programs, ProgramLists DEF IsList
  <2>3. PICK r : r = Len(todo')
    OBVIOUS
  <2>4. r = 51 /\ r \in 40..51 /\ ~(r < 30) /\ r # 30
    <3>1. r = 51
      BY <1>5, <2>1, <2>2, <2>3
    <3>. QED
      BY <3>1
  <2>5. InRead(fdc, irq_received, chs, r)
    BY <1>1, <1>4, <2>4, ProgramPhase
  <2>6. Programmed(dma, r)
    BY <1>1, <2>4, ProgrammedAt
  <2>7. InPhase'
    BY <1>2, <1>3, <1>5, <2>3, <2>4, <2>5, <2>6 DEF InPhase
  <2>8. FloppyInv'
    BY <1>1, <1>2, <1>5, <2>1, <2>2, <2>7, Decided DEF NothingRead
  <2>. QED
    BY <1>4, <1>5, <2>8
<1>6. CASE pc' = "seek" /\ todo' = todo
  <2>1. Program(pc', chs') = flpydsk_control_motor(TRUE) /\ IsList(flpydsk_control_motor(TRUE), 2)
    BY <1>1, <1>2, <1>6, Programs, ProgramLists
  <2>2. todo' = <<>>
    BY <1>2, <1>6
  <2>3. InPhase'
    BY <1>3, <1>4, <1>6 DEF InPhase
  <2>4. FloppyInv'
    BY <1>1, <1>2, <1>6, <2>1, <2>2, <2>3, Decided DEF NothingRead
  <2>. QED
    BY <1>6, <2>4
<1>. QED
  BY <1>2, <1>5, <1>6

LEMMA ReturnInv ==
  ASSUME FloppyInv, Return
  PROVE  FloppyInv'
<1>1. /\ Typed(fdc) /\ cyl \in 0..255 /\ irq_received \in BOOLEAN /\ chs \in Places /\ InPhase
      /\ tries \in 0..Tries
  BY FloppyInvImplies DEF FloppyInv, TypeOK
<1>2. /\ pc = "read" /\ todo = <<>> /\ chs' = chs /\ cyl' = cyl /\ ret' = DMA_BUFFER
      /\ pc' = "idle" /\ todo' = todo /\ tries' = tries /\ Hardware
  BY DEF Return, At
<1>3. irq_received' = irq_received /\ fdc' = fdc /\ failed' = failed /\ memory' = memory
  BY <1>2 DEF Hardware, deviceVars
<1>4. Settled(fdc, 0) /\ ~irq_received /\ fdc.dor = 12 /\ GotTheBlock
  <2>1. PICK r : r = Len(todo)
    OBVIOUS
  <2>2. r = 0 /\ r < 30 /\ r \in 0..15
    BY <1>2, <2>1
  <2>3. InRead(fdc, irq_received, chs, r) /\ GotTheBlock
    BY <1>1, <1>2, <2>1, <2>2, ReadingIs
  <2>4. InReset(fdc, irq_received, r)
    BY <1>1, <2>2, <2>3, ReadPhases
  <2>5. r \in 0..12
    BY <2>2
  <2>6. ~irq_received /\ Settled(fdc, r) /\ fdc.dor = 12
    BY <1>1, <2>4, <2>5, ResetPhases
  <2>. QED
    BY <2>2, <2>3, <2>6
<1>5. InIdle(0)'
  <2>1. GotTheBlock'
    BY <1>2, <1>3, <1>4 DEF GotTheBlock
  <2>. QED
    BY <1>3, <1>4, <2>1 DEF InIdle
<1>6. Len(todo') = 0 /\ todo' = <<>>
  BY <1>2
<1>7. InPhase'
  BY <1>2, <1>5, <1>6 DEF InPhase
<1>8. Program(pc', chs') = flpydsk_control_motor(FALSE) /\ IsList(flpydsk_control_motor(FALSE), 2)
  BY <1>1, <1>2, Programs, ProgramLists
<1>. QED
  BY <1>1, <1>2, <1>6, <1>7, <1>8, Decided DEF NothingRead

LEMMA InitInv ==
  ASSUME Init
  PROVE  FloppyInv
<1>1. PICK t \in 0..LastTrack, dor \in {12, 28} : fdc = Fdc(dor, <<>>, <<>>, "none", 0, t)
  BY DEF Init, Fdc
<1>2. AreFields(dor, <<>>, <<>>, "none", 0, t)
  BY DEF AreFields
<1>3. fdc \in FdcStates /\ Consists(fdc, dor, <<>>, <<>>, "none", 0, t)
  BY <1>1, <1>2, AnFdc
<1>4. Typed(fdc) /\ fdc.dor \in {12, 28}
  BY <1>3 DEF Typed, Consists
<1>5. Settled(fdc, 0)
  BY <1>3, <1>4, SettledZero DEF Consists
<1>6. dma \in DmaStates
  <2>1. PICK p, m, h : p = <<0, 0>> /\ m = {0, 1, 2, 3} /\ h = FALSE
    OBVIOUS
  <2>2. p \in [1..2 -> 0..255] /\ m \in SUBSET (0..3) /\ h \in BOOLEAN
    <3>1. DOMAIN p = 1..2 /\ p = [i \in 1..2 |-> p[i]] /\ p[1] = 0 /\ p[2] = 0
      BY <2>1
    <3>2. p \in [1..2 -> 0..255]
      BY <3>1
    <3>3. h \in BOOLEAN
      BY <2>1
    <3>4. m \in SUBSET (0..3)
      BY <2>1
    <3>. QED
      BY <3>2, <3>3, <3>4
  <2>3. dma = Chip(m, h, 0, 0, p, p)
    BY <2>1 DEF Init, Reset8237, Chip
  <2>4. AreRegisters(m, h, 0, 0, p, p)
    BY <2>2 DEF AreRegisters
  <2>. QED
    BY <2>3, <2>4, AChip
<1>7. /\ pc = "boot" /\ todo = <<>> /\ chs \in Places /\ cyl = 0 /\ tries = 0 /\ ret = 0
      /\ irq_received = FALSE /\ failed = FALSE
  BY DEF Init, Places
<1>8. Program(pc, chs) = <<>> /\ IsList(<<>>, 0)
  BY <1>7, Programs, ProgramLists
<1>9. IsRest(todo, Program(pc, chs)) /\ todo \in Seq(Operation)
  BY <1>7, <1>8, NoRest
<1>10. InPhase
  BY <1>4, <1>5, <1>7 DEF InPhase
<1>11. TypeOK
  <2>1. tries \in 0..Tries
    BY <1>7, FloppyAssumption
  <2>2. irq_received \in BOOLEAN /\ failed \in BOOLEAN /\ cyl \in 0..255
    <3>1. irq_received \in BOOLEAN /\ failed \in BOOLEAN
      BY <1>7, Zenon
    <3>2. cyl \in 0..255
      BY <1>7
    <3>. QED
      BY <3>1, <3>2
  <2>3. pc \in {"boot", "calibrate", "calibrated", "idle", "seek", "sought", "read"}
    BY <1>7
  <2>4. ret \in {0, DMA_BUFFER} /\ fdc \in FdcStates /\ Len(fdc.args) <= 9
    BY <1>4, <1>7 DEF Typed
  <2>5. chs \in [head : 0..255, track : 0..255, sector : 0..255]
    BY <1>7 DEF Places
  <2>. QED
    BY <1>6, <1>9, <2>1, <2>2, <2>3, <2>4, <2>5 DEF TypeOK
<1>. QED
  BY <1>7, <1>9, <1>10, <1>11 DEF FloppyInv, NothingRead

LEMMA NextInv ==
  ASSUME Timeouts = FALSE, FloppyInv, [Next]_vars
  PROVE  FloppyInv'
<1>1. CASE Driver
  BY <1>1, PerformInv, InstallInv, CalibrateInv, CalibrateTestInv, SeekInv, SeekTestInv, ReturnInv
     DEF Driver, Perform
<1>2. CASE Controller
  BY <1>2, ControllerInv
<1>3. CASE \E lba \in LBAs : flpydsk_read_sector(lba)
  BY <1>3, ReadSectorInv
<1>4. CASE UNCHANGED vars
  <2>1. /\ todo' = todo /\ pc' = pc /\ chs' = chs /\ cyl' = cyl /\ tries' = tries /\ ret' = ret
        /\ irq_received' = irq_received /\ fdc' = fdc /\ dma' = dma /\ memory' = memory
        /\ failed' = failed
    BY <1>4 DEF vars, driverVars, deviceVars
  <2>2. TypeOK' /\ NothingRead' /\ IsRest(todo, Program(pc, chs))'
    BY <2>1 DEF FloppyInv, TypeOK, NothingRead
  <2>3. GotTheBlock' = GotTheBlock /\ \A r : InIdle(r)' = InIdle(r)
    BY <2>1 DEF InIdle, GotTheBlock
  <2>4. InPhase'
    BY <2>1, <2>3 DEF FloppyInv, InPhase
  <2>. QED
    BY <2>2, <2>4 DEF FloppyInv
<1>. QED
  BY <1>1, <1>2, <1>3, <1>4 DEF Next

-----------------------------------------------------------------------------
(* The controller expects every byte that it gets.                         *)

LEMMA Names ==
  /\ \A p, v : Out(p, v).op # "send"
  /\ \A n \in {"read", "read_cyl", "wait", "clear", "sleep"} : Do(n).op # "send"
BY DEF Out, Do

LEMMA SendsInReset ==
  ASSUME NEW o, NEW r \in 1..16, IsResetStep(o, r), o.op = "send"
  PROVE  r <= 12 /\ (r % 3) = 0
<1>1. r \notin {13, 14, 15, 16}
  BY Names DEF IsResetStep
<1>2. r <= 12
  BY <1>1
<1>3. (r % 3) # 1 /\ (r % 3) # 2
  BY <1>2, Names DEF IsResetStep
<1>. QED
  BY <1>2, <1>3

LEMMA SendsInInstall ==
  ASSUME NEW o, NEW r \in 1..22, IsInstallStep(o, r), o.op = "send"
  PROVE  r \in 3..5 \/ (r \in 7..18 /\ ((r - 6) % 3) = 0)
<1>1. CASE r > 6
  <2>1. PICK q : q = r - 6
    OBVIOUS
  <2>2. q \in 1..16 /\ IsResetStep(o, q)
    BY <1>1, <2>1 DEF IsInstallStep
  <2>3. q <= 12 /\ (q % 3) = 0
    BY <2>2, SendsInReset
  <2>. QED
    BY <1>1, <2>1, <2>2, <2>3
<1>2. CASE r <= 6
  BY <1>2, Names DEF IsInstallStep
<1>. QED
  BY <1>1, <1>2

LEMMA SendsInHeadMoves ==
  ASSUME NEW o, NEW command, NEW k \in 2..3, NEW r \in 1..(k + 5), IsHeadStep(o, command, r),
         o.op = "send"
  PROVE  r \in 6..(k + 5) \/ r = 3
BY Names DEF IsHeadStep

LEMMA SendsInDma ==
  ASSUME NEW o, NEW r \in 1..12, IsDmaStep(o, r)
  PROVE  o.op # "send"
<1>1. r = 1 \/ r = 2 \/ r = 3 \/ r = 4 \/ r = 5 \/ r = 6 \/ r = 7 \/ r = 8 \/ r = 9 \/ r = 10
      \/ r = 11 \/ r = 12
  OBVIOUS
<1>. QED
  BY <1>1, Names DEF IsDmaStep

LEMMA SendsInRead ==
  ASSUME NEW o, NEW c, NEW r \in 1..51, IsReadStep(o, c, r), o.op = "send"
  PROVE  r \in 31..39 \/ r = 21 \/ (r \in 1..12 /\ (r % 3) = 0)
<1>1. CASE r \in 40..51
  <2>1. PICK q : q = r - 39
    OBVIOUS
  <2>2. q \in 1..12 /\ IsDmaStep(o, q)
    BY <1>1, <2>1 DEF IsReadStep
  <2>. QED
    BY <2>2, SendsInDma
<1>2. CASE r \in 17..30
  <2>1. r = 30 \/ r = 29 \/ r \in 22..28 \/ r = 21 \/ r = 20 \/ r = 19 \/ r = 18 \/ r = 17
    BY <1>2
  <2>. QED
    BY <2>1, Names DEF IsReadStep
<1>3. CASE r <= 16
  BY <1>3, SendsInReset DEF IsReadStep
<1>. QED
  BY <1>1, <1>2, <1>3

LEMMA QuietExpects ==
  ASSUME Typed(fdc), fdc.dor \in {12, 28}, NEW n \in 0..12, (n % 3) = 0,
         Settled(fdc, n) \/ \E command, k : Gets(fdc, command, k)
  PROVE  Expects
<1>1. Bit(fdc.dor, 4)
  BY Bits
<1>2. CASE \E command, k : Gets(fdc, command, k)
  BY <1>1, <1>2 DEF Gets, Given, Expects, Working
<1>3. CASE Settled(fdc, n)
  <2>1. PICK q, s : q = fdc.result /\ s = fdc.sense
    OBVIOUS
  <2>2. q \in Seq(0..255) /\ s \in 0..4
    BY <2>1, FdcFields DEF Typed
  <2>3. PICK k : k = Len(q)
    OBVIOUS
  <2>4. k \in Nat /\ k <= 2 /\ 3 * s + k = n
    BY <1>3, <2>1, <2>2, <2>3 DEF Settled
  <2>5. k = 0
    BY <2>2, <2>4
  <2>6. q = <<>>
    BY <2>2, <2>3, <2>5, NoLength
  <2>. QED
    BY <1>1, <1>3, <2>1, <2>6 DEF Settled, Expects, Working
<1>. QED
  BY <1>2, <1>3

LEMMA InResetExpects ==
  ASSUME Typed(fdc), NEW irq \in BOOLEAN, NEW r \in 1..12, (r % 3) = 0, InReset(fdc, irq, r)
  PROVE  Expects
<1>1. Settled(fdc, r) /\ fdc.dor = 12
  <2>1. r \in 0..12
    OBVIOUS
  <2>. QED
    BY <2>1, ResetPhases
<1>. QED
  BY <1>1, QuietExpects

LEMMA InHeadMovesExpects ==
  ASSUME Typed(fdc), NEW irq \in BOOLEAN, NEW k \in 2..3, NEW command, IsBytes(command, k),
         NEW r \in 1..(k + 5), r \in 6..(k + 5) \/ r = 3, InHeadMoves(fdc, irq, command, r)
  PROVE  Expects
<1>1. fdc.dor = 28 /\ 0 \in 0..12 /\ 0 % 3 = 0 /\ 3 \in 0..12 /\ 3 % 3 = 0
  BY DEF InHeadMoves
<1>2. CASE r \in 6..(k + 5)
  <2>1. Gets(fdc, command, k + 5 - r)
    BY <1>2, HeadPhases
  <2>. QED
    BY <1>1, <2>1, QuietExpects
<1>3. CASE r = 3
  <2>1. Settled(fdc, 3)
    BY <1>3 DEF InHeadMoves
  <2>. QED
    BY <1>1, <2>1, QuietExpects
<1>. QED
  BY <1>2, <1>3

LEMMA InInstallExpects ==
  ASSUME Typed(fdc), NEW irq \in BOOLEAN, NEW r \in 1..22,
         r \in 3..5 \/ (r \in 7..18 /\ ((r - 6) % 3) = 0), InInstall(fdc, irq, r)
  PROVE  Expects
<1>1. CASE r \in 3..5
  <2>1. Gets(fdc, <<SPECIFY, 48, 32>>, 5 - r) /\ fdc.dor = 12
    BY <1>1, InstallPhases
  <2>2. 0 \in 0..12 /\ 0 % 3 = 0
    OBVIOUS
  <2>. QED
    BY <2>1, <2>2, QuietExpects
<1>2. CASE r \in 7..18 /\ ((r - 6) % 3) = 0
  <2>1. PICK q : q = r - 6
    OBVIOUS
  <2>2. q \in 1..12 /\ (q % 3) = 0
    BY <1>2, <2>1
  <2>3. InReset(fdc, irq, q)
    BY <1>2, <2>1, InstallPhases
  <2>. QED
    BY <2>2, <2>3, InResetExpects
<1>. QED
  BY <1>1, <1>2

LEMMA InReadExpects ==
  ASSUME Typed(fdc), NEW irq \in BOOLEAN, NEW c, NEW r \in 1..51,
         r \in 31..39 \/ r = 21 \/ (r \in 1..12 /\ (r % 3) = 0), InRead(fdc, irq, c, r)
  PROVE  Expects
<1>1. 0 \in 0..12 /\ 0 % 3 = 0
  OBVIOUS
<1>2. CASE r \in 31..39
  <2>1. Gets(fdc, ReadCommand(c), 39 - r) /\ fdc.dor = 28
    BY <1>2, CommandPhase
  <2>. QED
    BY <1>1, <2>1, QuietExpects
<1>3. CASE r = 21
  <2>1. r \in {18, 19, 21}
    BY <1>3
  <2>2. Settled(fdc, 0) /\ fdc.dor = 28
    BY <2>1, ReadPhases
  <2>. QED
    BY <1>1, <2>2, QuietExpects
<1>4. CASE r \in 1..12 /\ (r % 3) = 0
  <2>1. r \in 0..15
    BY <1>4
  <2>2. InReset(fdc, irq, r)
    BY <2>1, ReadPhases
  <2>. QED
    BY <1>4, <2>2, InResetExpects
<1>. QED
  BY <1>2, <1>3, <1>4

LEMMA SendIsExpected ==
  ASSUME FloppyInv, flpydsk_send_command
  PROVE  Expects
<1>1. PICK r : r = Len(todo)
  OBVIOUS
<1>2. todo # <<>> /\ Head(todo).op = "send"
  BY DEF flpydsk_send_command, Does
<1>3. /\ Typed(fdc) /\ irq_received \in BOOLEAN /\ chs \in Places /\ todo \in Seq(Operation)
      /\ IsRest(todo, Program(pc, chs)) /\ InPhase
  BY FloppyInvImplies
<1>4. pc \in {"boot", "calibrate", "calibrated", "idle", "seek", "sought", "read"}
  BY DEF FloppyInv, TypeOK
<1>5. CASE pc = "calibrate"
  <2>1. r \in 1..22 /\ Head(todo) = Nth(InstallSteps, r)
    BY <1>1, <1>2, <1>3, <1>5, Programs, ProgramLists, TheRest
  <2>2. IsInstallStep(Head(todo), r)
    BY <2>1, InstallIs
  <2>3. InInstall(fdc, irq_received, r)
    BY <1>1, <1>3, <1>5 DEF InPhase
  <2>4. r \in 3..5 \/ (r \in 7..18 /\ ((r - 6) % 3) = 0)
    BY <1>2, <2>1, <2>2, SendsInInstall
  <2>. QED
    BY <1>3, <2>1, <2>3, <2>4, InInstallExpects
<1>6. ASSUME NEW s, NEW k \in 2..3, IsBytes(s, k), Program(pc, chs) = HeadMoves(s),
             InHeadMoves(fdc, irq_received, s, r)
      PROVE  Expects
  <2>1. IsList(HeadMoves(s), k + 5) /\ k + 5 \in Nat
    BY <1>6, HeadSteps
  <2>2. r \in 1..(k + 5) /\ Head(todo) = Nth(HeadMoves(s), r)
    BY <1>1, <1>2, <1>3, <1>6, <2>1, TheRest
  <2>3. IsHeadStep(Head(todo), s, r)
    BY <1>6, <2>2, HeadSteps
  <2>4. r \in 6..(k + 5) \/ r = 3
    BY <1>2, <2>2, <2>3, SendsInHeadMoves
  <2>. QED
    BY <1>3, <1>6, <2>2, <2>4, InHeadMovesExpects
<1>7. CASE pc = "calibrated"
  <2>1. PICK s, k : s = CalibrateCommand /\ k = 2
    OBVIOUS
  <2>2. k \in 2..3 /\ IsBytes(s, k) /\ Program(pc, chs) = HeadMoves(s)
    <3>1. Program(pc, chs) = HeadMoves(CalibrateCommand)
      BY <1>3, <1>7, Programs
    <3>2. IsBytes(CalibrateCommand, 2) /\ k \in 2..3
      BY <1>3, <2>1, Commands
    <3>. QED
      BY <2>1, <3>1, <3>2
  <2>3. InHeadMoves(fdc, irq_received, s, r)
    BY <1>1, <1>3, <1>7, <2>1 DEF InPhase
  <2>. QED
    BY <1>6, <2>2, <2>3
<1>8. CASE pc = "sought"
  <2>1. PICK s, k : s = SeekCommand(chs) /\ k = 3
    OBVIOUS
  <2>2. k \in 2..3 /\ IsBytes(s, k) /\ Program(pc, chs) = HeadMoves(s)
    <3>1. Program(pc, chs) = HeadMoves(SeekCommand(chs))
      BY <1>3, <1>8, Programs
    <3>2. IsBytes(SeekCommand(chs), 3) /\ k \in 2..3
      BY <1>3, <2>1, Commands
    <3>. QED
      BY <2>1, <3>1, <3>2
  <2>3. InHeadMoves(fdc, irq_received, s, r)
    BY <1>1, <1>3, <1>8, <2>1 DEF InPhase
  <2>. QED
    BY <1>6, <2>2, <2>3
<1>9. CASE pc = "read"
  <2>1. r \in 1..51 /\ Head(todo) = Nth(ReadSteps(chs), r)
    BY <1>1, <1>2, <1>3, <1>9, Programs, ProgramLists, TheRest
  <2>2. IsReadStep(Head(todo), chs, r)
    BY <1>3, <2>1, ReadIs
  <2>3. InRead(fdc, irq_received, chs, r)
    BY <1>1, <1>3, <1>9 DEF InPhase
  <2>4. r \in 31..39 \/ r = 21 \/ (r \in 1..12 /\ (r % 3) = 0)
    BY <1>2, <2>1, <2>2, SendsInRead
  <2>. QED
    BY <1>3, <2>1, <2>3, <2>4, InReadExpects
<1>10. ASSUME NEW b \in BOOLEAN, Program(pc, chs) = flpydsk_control_motor(b)
       PROVE  FALSE
  <2>1. PICK s : s = flpydsk_control_motor(b)
    OBVIOUS
  <2>2. r \in 1..2 /\ Head(todo) = Nth(s, r)
    BY <1>1, <1>2, <1>3, <1>10, <2>1, ProgramLists, TheRest
  <2>3. Nth(s, 2).op # "send" /\ Nth(s, 1).op # "send"
    BY <2>1, MotorSteps, Names
  <2>. QED
    BY <1>2, <2>2, <2>3
<1>11. pc # "seek" /\ pc # "idle"
  <2>1. TRUE \in BOOLEAN /\ FALSE \in BOOLEAN
    OBVIOUS
  <2>. QED
    BY <1>3, <1>10, <2>1, Programs
<1>12. pc # "boot"
  <2>1. pc = "boot" => IsRest(todo, <<>>) /\ IsList(<<>>, 0)
    BY <1>3, Programs, ProgramLists
  <2>2. pc = "boot" => r \in 1..0
    BY <1>1, <1>2, <1>3, <2>1, TheRest
  <2>. QED
    BY <2>2
<1>. QED
  BY <1>4, <1>5, <1>7, <1>8, <1>9, <1>11, <1>12

-----------------------------------------------------------------------------
(* What follows.                                                           *)

(***************************************************************************)
(* As long as no poll of the status register gives up too early, the       *)
(* driver and the controller are where FloppyInv says, whatever the blocks *)
(* asked for, the tracks of the drive, its faults and the moments at which *)
(* it interrupts.                                                          *)
(***************************************************************************)
THEOREM FloppyInvariant ==
  ASSUME Timeouts = FALSE
  PROVE  Spec => []FloppyInv
<1>1. Init => FloppyInv
  BY InitInv
<1>2. FloppyInv /\ [Next]_vars => FloppyInv'
  BY NextInv
<1>. QED
  BY <1>1, <1>2, PTL DEF Spec

\* flpydsk_read_sector and what it calls keep their variables' types.
THEOREM FloppyTyped ==
  ASSUME Timeouts = FALSE
  PROVE  Spec => []TypeOK
<1>1. FloppyInv => TypeOK
  BY DEF FloppyInv
<1>. QED
  BY <1>1, FloppyInvariant, PTL

LEMMA WhenIdle ==
  ASSUME FloppyInv, Idle
  PROVE  InIdle(0) /\ Typed(fdc)
<1>1. pc = "idle" /\ Len(todo) = 0
  BY DEF Idle, At
<1>. QED
  BY <1>1, FloppyInvImplies DEF InPhase

-----------------------------------------------------------------------------
(* The block that was asked for: only a sector of the disk gets into the   *)
(* buffer, and what the driver looks for is what is left of the number.    *)

\* Out of a uint8, a head of the disk is the one that went in; the rest is no head.
Heads == {-1, 0, 1}

LEMMA ThreeHeads ==
  ASSUME NEW lba \in Int
  PROVE  /\ flpydsk_lba_to_chs(lba).head \in Heads
         /\ flpydsk_lba_to_chs(lba).track \in Int /\ flpydsk_lba_to_chs(lba).sector \in Int
<1>1. CASE lba >= 0
  BY <1>1 DEF Heads, flpydsk_lba_to_chs, CDiv, CMod, FLPY_SECTORS_PER_TRACK
<1>2. CASE lba < 0
  <2>1. PICK n \in Nat : n = -lba /\ n > 0
    BY <1>2
  <2>2. PICK h, t, s : h = (n % 36) \div 18 /\ t = n \div 36 /\ s = n % 18
    OBVIOUS
  <2>3. h \in 0..1 /\ t \in Nat /\ s \in 0..17
    BY <2>2
  <2>4. CMod(lba, 36) = -(n % 36) /\ CDiv(lba, 36) = -t /\ CMod(lba, 18) = -s
    BY <1>2, <2>1, <2>2 DEF CMod, CDiv
  <2>5. CDiv(-(n % 36), 18) = -h
    BY <2>1, <2>2 DEF CDiv
  <2>. QED
    BY <2>3, <2>4, <2>5 DEF Heads, flpydsk_lba_to_chs, FLPY_SECTORS_PER_TRACK
<1>. QED
  BY <1>1, <1>2

\* A number below zero of track 0 is before the first head or the first sector.
LEMMA NotBeforeTheDisk ==
  ASSUME NEW lba \in Int, lba < 0,
         flpydsk_lba_to_chs(lba).track >= 0, flpydsk_lba_to_chs(lba).head = 0
  PROVE  flpydsk_lba_to_chs(lba).sector \in -16..0
<1>1. PICK n \in Nat : n = -lba /\ n > 0
  OBVIOUS
<1>2. PICK h, t, s : h = (n % 36) \div 18 /\ t = n \div 36 /\ s = n % 18
  OBVIOUS
<1>3. CMod(lba, 36) = -(n % 36) /\ CDiv(lba, 36) = -t /\ CMod(lba, 18) = -s
  BY <1>1, <1>2 DEF CMod, CDiv
<1>4. CDiv(-(n % 36), 18) = -h
  BY <1>1, <1>2 DEF CDiv
<1>5. -t >= 0 /\ -h = 0
  BY <1>3, <1>4 DEF flpydsk_lba_to_chs, FLPY_SECTORS_PER_TRACK
<1>6. n < 18
  BY <1>1, <1>2, <1>5
<1>7. s = n
  BY <1>2, <1>6
<1>. QED
  BY <1>1, <1>3, <1>6, <1>7 DEF flpydsk_lba_to_chs, FLPY_SECTORS_PER_TRACK

\* What is left of a number in three uint8 tells it, when its track survives.
LEMMA TheCastTells ==
  ASSUME NEW lba \in Int, TrackSurvivesCast(lba),
         NEW h, NEW t, NEW s,
         h = flpydsk_lba_to_chs(lba).head, t = flpydsk_lba_to_chs(lba).track,
         s = flpydsk_lba_to_chs(lba).sector,
         h % 256 \in 0..1, t % 256 \in 0..LastTrack, s % 256 \in 1..18
  PROVE  h % 256 = h /\ t % 256 = t /\ s % 256 = s
<1>1. h \in Heads /\ t \in Int /\ s \in Int
  BY ThreeHeads
<1>2. h \in 0..1
  BY <1>1 DEF Heads
<1>3. t \in (LastTrack - 255)..255 /\ LastTrack \in 0..255
  BY FloppyAssumption DEF TrackSurvivesCast
<1>4. t >= 0
  <2>1. SUFFICES ASSUME t < 0 PROVE FALSE
    BY <1>1
  <2>2. t % 256 = t + 256
    BY <1>1, <1>3, <2>1
  <2>. QED
    BY <1>1, <1>3, <2>1, <2>2
<1>5. lba >= 0
  <2>1. SUFFICES ASSUME lba < 0 PROVE FALSE
    OBVIOUS
  <2>2. h = 0
    <3>1. h \in {-1, 0}
      <4>1. PICK n \in Nat : n = -lba /\ n > 0
        BY <2>1
      <4>2. CMod(lba, 36) = -(n % 36)
        BY <2>1, <4>1 DEF CMod
      <4>3. CDiv(-(n % 36), 18) <= 0
        BY <4>1 DEF CDiv
      <4>. QED
        BY <1>2, <4>2, <4>3 DEF flpydsk_lba_to_chs, FLPY_SECTORS_PER_TRACK
    <3>. QED
      BY <1>2, <3>1
  <2>3. s \in -16..0
    BY <1>4, <2>1, <2>2, NotBeforeTheDisk
  <2>4. s % 256 = 0 \/ s % 256 = s + 256
    BY <2>3
  <2>. QED
    BY <2>3, <2>4
<1>6. s \in 1..18
  BY <1>5, BlocksAreSectors
<1>. QED
  BY <1>1, <1>2, <1>3, <1>4, <1>6

\* The assignments of chs that a step may make, and of the buffer.
LEMMA RequestStep ==
  ASSUME FloppyInv, Request, [Next]_vars
  PROVE  Request'
<1>1. CASE Perform
  <2>1. asked' = asked /\ chs' = chs /\ memory' = memory
    BY <1>1 DEF Perform, WritePort, flpydsk_send_command, flpydsk_read_data, SeeIrq, ClearIrq,
                Sleep, SameDriver
  <2>. QED
    BY <2>1 DEF Request, OnDisk, AskedFor
<1>2. CASE /\ \/ flpydsk_install \/ flpydsk_calibrate \/ CalibrateTest \/ flpydsk_seek
              \/ SeekTest \/ Return
  <2>1. asked' = asked /\ chs' = chs /\ memory' = memory
    BY <1>2 DEF flpydsk_install, flpydsk_calibrate, CalibrateTest, flpydsk_seek, SeekTest, Return,
                Hardware, deviceVars
  <2>. QED
    BY <2>1 DEF Request, OnDisk, AskedFor
<1>3. CASE \E lba \in LBAs : flpydsk_read_sector(lba)
  <2>1. PICK lba \in LBAs : asked' = lba /\ chs' = Cast(flpydsk_lba_to_chs(lba))
    BY <1>3 DEF flpydsk_read_sector
  <2>2. memory' = memory
    BY <1>3 DEF flpydsk_read_sector, Hardware, deviceVars
  <2>. QED
    BY <2>1, <2>2 DEF Request, OnDisk, AskedFor
<1>4. CASE ResetDone \/ SeekDone \/ UNCHANGED vars
  <2>1. asked' = asked /\ chs' = chs /\ memory' = memory
    BY <1>4 DEF ResetDone, SeekDone, vars, driverVars, deviceVars
  <2>. QED
    BY <2>1 DEF Request, OnDisk, AskedFor
<1>5. CASE ReadDone
  <2>1. asked' = asked /\ chs' = chs
    BY <1>5 DEF ReadDone, driverVars
  <2>2. CASE memory' = memory
    BY <2>1, <2>2 DEF Request, OnDisk, AskedFor
  <2>3. CASE Readable /\ memory' = Asked
    <3>1. Asked.track \in 0..LastTrack /\ Asked.head \in 0..1 /\ Asked.sector \in 1..FLPY_SECTORS_PER_TRACK
      <4>1. fdc \in FdcStates
        BY DEF FloppyInv, TypeOK
      <4>2. fdc.track \in 0..LastTrack
        BY <4>1 DEF FdcStates
      <4>. QED
        BY <2>3, <4>2 DEF Readable
    <3>. QED
      BY <2>1, <2>3, <3>1 DEF Request, OnDisk, AskedFor
  <2>. QED
    BY <1>5, <2>2, <2>3 DEF ReadDone
<1>. QED
  BY <1>1, <1>2, <1>3, <1>4, <1>5 DEF Next, Driver, Controller, Perform

LEMMA RequestInit ==
  ASSUME Init
  PROVE  Request
<1>1. asked = 0 /\ chs = [head |-> 0, track |-> 0, sector |-> 1] /\ memory.head = 2 /\ memory.track = 0
  BY DEF Init
<1>2. flpydsk_lba_to_chs(0) = chs
  BY <1>1 DEF flpydsk_lba_to_chs, CDiv, CMod, FLPY_SECTORS_PER_TRACK
<1>3. Cast(chs) = chs
  BY <1>1 DEF Cast
<1>. QED
  BY <1>1, <1>2, <1>3, FloppyAssumption DEF Request, OnDisk, AskedFor

LEMMA RequestMeans ==
  ASSUME FloppyInv, Request
  PROVE  BlockIsTheOneAsked
<1>1. SUFFICES ASSUME Idle, ret = DMA_BUFFER, ~failed, TrackSurvivesCast(asked)
               PROVE  memory = flpydsk_lba_to_chs(asked)
  BY DEF BlockIsTheOneAsked
<1>2. memory = Cast(flpydsk_lba_to_chs(asked))
  BY <1>1, WhenIdle DEF InIdle, GotTheBlock, Request, AskedFor
<1>3. asked \in Int
  BY FloppyAssumption DEF Request, AskedFor
<1>4. PICK h, t, s : flpydsk_lba_to_chs(asked) = [head |-> h, track |-> t, sector |-> s]
  BY DEF flpydsk_lba_to_chs
<1>5. h \in Heads /\ t \in Int /\ s \in Int
  BY <1>3, <1>4, ThreeHeads
<1>6. memory = [head |-> h % 256, track |-> t % 256, sector |-> s % 256]
  BY <1>2, <1>4 DEF Cast
<1>7. h % 256 \in 0..1 /\ t % 256 \in 0..LastTrack /\ s % 256 \in 1..18
  <2>1. h % 256 \in 0..2 /\ t % 256 \in 0..LastTrack /\ (h % 256 \in 0..1 => s % 256 \in 1..18)
    BY <1>6 DEF Request, OnDisk, FLPY_SECTORS_PER_TRACK
  <2>2. h % 256 # 2
    BY <1>5 DEF Heads
  <2>. QED
    BY <2>1, <2>2, <1>5
<1>8. h % 256 = h /\ t % 256 = t /\ s % 256 = s
  BY <1>1, <1>3, <1>4, <1>7, TheCastTells
<1>. QED
  BY <1>4, <1>6, <1>8

(***************************************************************************)
(* The buffer that flpydsk_read_sector returns holds the block whose       *)
(* number it was given: DMA has put it where the driver says, and the      *)
(* casts to uint8 have not made another block of it.  Not so if the        *)
(* controller reported an error, which the driver does not look at, or if  *)
(* the block's track is not between LastTrack - 255 and 255.               *)
(***************************************************************************)
THEOREM TheBlockAskedFor ==
  ASSUME Timeouts = FALSE
  PROVE  Spec => []BlockIsTheOneAsked
<1>1. Init => Request
  BY RequestInit
<1>2. FloppyInv /\ Request /\ [Next]_vars => Request'
  BY RequestStep
<1>3. FloppyInv /\ Request => BlockIsTheOneAsked
  BY RequestMeans
<1>. QED
  BY <1>1, <1>2, <1>3, FloppyInvariant, PTL DEF Spec

(***************************************************************************)
(* Between two reads driver and controller agree: the reset at the end of  *)
(* flpydsk_read_sector_imp's caller leaves nothing half done.              *)
(***************************************************************************)
THEOREM AlwaysInStep ==
  ASSUME Timeouts = FALSE
  PROVE  Spec => []InStep
<1>1. FloppyInv => InStep
  <2>1. SUFFICES ASSUME FloppyInv, Idle
                 PROVE  /\ fdc.job = "none" /\ fdc.args = <<>> /\ fdc.result = <<>>
                        /\ fdc.sense = 0 /\ ~irq_received
    BY DEF InStep
  <2>2. InIdle(0) /\ Typed(fdc)
    BY <2>1, WhenIdle
  <2>3. Settled(fdc, 0) /\ ~irq_received
    BY <2>2 DEF InIdle
  <2>. QED
    BY <2>2, <2>3, SettledZero
<1>. QED
  BY <1>1, FloppyInvariant, PTL

\* The motor does not stay on, except after a read that never found its track.
THEOREM MotorDoesStop ==
  ASSUME Timeouts = FALSE
  PROVE  Spec => []MotorStops
<1>1. FloppyInv => MotorStops
  <2>1. SUFFICES ASSUME FloppyInv, Idle, Bit(fdc.dor, 16)
                 PROVE  ret = 0 /\ tries = Tries
    BY DEF MotorStops
  <2>2. fdc.dor \in {4, 12} \/ (fdc.dor = 28 /\ ret = 0 /\ tries = Tries)
    <3>1. InIdle(0) /\ 0 < 2
      BY <2>1, WhenIdle
    <3>. QED
      BY <3>1 DEF InIdle
  <2>. QED
    BY <2>1, <2>2, Bits
<1>. QED
  BY <1>1, FloppyInvariant, PTL

\* flpydsk_send_command never drops a byte because the controller is busy.
THEOREM BytesAreExpected ==
  ASSUME Timeouts = FALSE
  PROVE  Spec => NeverTalksOver
<1>1. FloppyInv /\ [Next]_vars => [flpydsk_send_command => Expects]_vars
  BY SendIsExpected
<1>. QED
  BY <1>1, FloppyInvariant, PTL DEF Spec, NeverTalksOver

\* When flpydsk_calibrate and flpydsk_seek believe the cylinder they read, they are right.
THEOREM TracksAreFound ==
  ASSUME Timeouts = FALSE
  PROVE  Spec => FoundTheTrack
<1>1. FloppyInv /\ [Next]_vars
        => [/\ CalibrateTest /\ pc' = "idle" => fdc.track = 0
            /\ SeekTest /\ pc' = "read" => fdc.track = chs.track]_vars
  BY CalibrateTestInv, SeekTestInv
<1>. QED
  BY <1>1, FloppyInvariant, PTL DEF Spec, FoundTheTrack
=============================================================================
