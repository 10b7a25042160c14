----------------------------- MODULE MCCodexHome -----------------------------
(***************************************************************************)
(* CodexHome for TLC: two homes; CODEX_HOME is not set, and the current    *)
(* user's home is also that of a local profile.                            *)
(***************************************************************************)
EXTENDS CodexHome, TLC

CONSTANTS h1, h2

MCHome == {h1, h2}
MCEnvHomes == << >>
MCUserHomes == <<h1>>
MCProfileHomes == <<h2, h1>>
===============================================================================
