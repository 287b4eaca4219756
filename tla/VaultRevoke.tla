----------------------------- MODULE VaultRevoke -----------------------------
(***************************************************************************)
(* Taking access away.  The edits of VaultFile, watched by one history     *)
(* variable: the secrets whose slots remove-slot has taken out of the      *)
(* vault and that no command has been asked to put back.                   *)
(*                                                                         *)
(* The temporary file is kept out of the picture: no two edits are between *)
(* its creation and its end at once (what happens then is VaultFile's      *)
(* VaultStaysWhole).  They still overlap before that, each with the slot   *)
(* section it has read.                                                    *)
(***************************************************************************)
EXTENDS VaultFile

VARIABLE revoked

revokeVars == <<dir, data, wr, rd, revoked>>

\* The secrets that open what is under the vault's path.
Opening(files, entries) == Openers(SlotsOf(files[entries.vault]))

\* Publishing the section of p: remove-slot, which adds nothing, revokes.
Revokes(p) ==
  IF wr[p].adds = None
  THEN revoked \cup (Opening(data, dir) \ Opening(data', dir'))
  ELSE revoked \ {wr[p].adds}

\* Writing, copying, replacing and cleaning up <vault>.tmp.
Rewriting(p) == wr[p].pc \in {"write", "copy", "replace", "cleanup"}

Apart == \A p, q \in Writers : Rewriting(p) /\ Rewriting(q) => p = q

\* A finished vault of two slots for two secrets.
RevokeInit ==
  /\ InitWhole
  /\ Len(SlotsOf(data[dir.vault])) = 2
  /\ Cardinality(Opening(data, dir)) = 2
  /\ revoked = {}

RevokeNext ==
  \E p \in Writers :
    /\ Edit(p) /\ Apart'
    /\ revoked' = IF Replace(p) /\ dir' # dir THEN Revokes(p) ELSE revoked

RevokeSpec == RevokeInit /\ [][RevokeNext]_revokeVars

-----------------------------------------------------------------------------
\* What remove-slot has taken out opens the vault no more, until a command is
\* asked to add it (README.md:87 "revoke a slot").  It does not hold: an edit
\* that has read the section before publishes the slot again.
RevokedStayOut ==
  revoked \cap Opening(data, dir) = {}
==============================================================================
