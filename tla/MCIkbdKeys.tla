----------------------------- MODULE MCIkbdKeys -----------------------------
EXTENDS IkbdKeys
\* A hotkey needs both keyboards, and SHIFT is on both.  F11 is left to the
\* proofs: what it swaps, LoadSettings swaps too.
MCKeysOf == [pc |-> {"ctrl", "lshift"}, st |-> {"lshift", "f12", "left"}]
=============================================================================
