------------------------- MODULE MC_PromptLifecycle -------------------------
EXTENDS PromptLifecycle

\* Two tool processes: a second round shown by a "responded" override.
MCMaxSpawns == 2
=============================================================================
