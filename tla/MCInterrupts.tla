----------------------------- MODULE MCInterrupts -----------------------------
EXTENDS Interrupts

==============================================================================
