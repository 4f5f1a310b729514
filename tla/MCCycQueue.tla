----------------------------- MODULE MCCycQueue -----------------------------
\* CycQueue for TLC: five nodes hold the entry, the placeholder and up to
\* three queued values, so the ring goes through empty, one, two and three
\* values and malloc has addresses to reuse.
EXTENDS CycQueue
=============================================================================
