----------------------------- MODULE MCKeyboard -----------------------------
EXTENDS KeyboardProps

CONSTANT k
=============================================================================
