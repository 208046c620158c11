------------------------------ MODULE MCScreen ------------------------------
EXTENDS ScreenProps

Chr(c) == [chr |-> c, value |-> 0]
Num(n) == [chr |-> "%d", value |-> n]

\* Texts that end a line by a character, by "\n" and by a number of three digits.
KernelTexts == {<<Chr("a"), Chr("b")>>, <<Chr("c"), Chr("\n")>>, <<Num(5), Chr("d")>>}
ProgramTexts == {<<Chr("x")>>, <<Chr("y"), Chr("\n")>>, <<Num(2)>>, <<Chr("x"), Chr("y"), Chr("z")>>}
PowersOf2 == [n \in 0..5 |-> 2^n]
=============================================================================
