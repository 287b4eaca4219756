------------------------------ MODULE VaultCli ------------------------------
(***************************************************************************)
(* The command line: what stands between a user and the service.  A        *)
(* command loads the identity file, asks for passwords, compares the two   *)
(* entries of a new one, checks its strength, calls the service once, and  *)
(* prints what came of it before it turns that into an exit code.          *)
(*                                                                         *)
(* Commands run one after the other.  A call of the service is one step of *)
(* VaultSpec (two for encrypt); commands that overlap are the subject of   *)
(* VaultFile.                                                              *)
(***************************************************************************)
EXTENDS VaultSpec

CONSTANTS
  MaxRecipients,   \* most --recipient options on one command line
  Weak,      \* the passwords in which strength.weaknesses finds something
  Empty,     \* the empty password
  None       \* no password

ASSUME VaultCliAssumption ==
  /\ MaxRecipients \in Nat \ {0}
  /\ Weak \subseteq Passwords
  /\ Empty \in Weak
  /\ None \notin Secrets

VARIABLES
  keyfile,    \* the identity file: a key pair, or "missing" or "malformed"
  proc,       \* the command that runs
  wanted      \* new passwords commands asked for, a weak one with --allow-weak

cliVars == <<vault, keyfile, proc, wanted>>

-----------------------------------------------------------------------------
(* Requests: what was typed on the command line.                            *)

Request(names, news, given, allowing, identity, recipients, indices) ==
  [name : names, new : news, given : given, allowWeak : allowing,
   identity : identity, recipients : recipients, index : indices]

NoNew  == {None}
No     == {FALSE}
Nobody == {<<>>}

\* Exactly one recipient, and any number of --recipient options.
One        == [{1} -> Identities]
Repeatable == UNION {[1 .. n -> Identities] : n \in 0 .. MaxRecipients}

Requests ==
  Request({"encrypt"}, Passwords, BOOLEAN, BOOLEAN, No, Repeatable, {0})
  \cup Request({"rekey"}, Passwords, BOOLEAN, BOOLEAN, No, Nobody, {0})
  \cup Request({"add-password"}, Passwords, BOOLEAN, BOOLEAN, BOOLEAN, Nobody, {0})
  \cup Request({"add-recipient"}, NoNew, No, No, BOOLEAN, One, {0})
  \cup Request({"decrypt"}, NoNew, No, No, BOOLEAN, Nobody, {0})
  \cup Request({"info"}, NoNew, No, No, No, Nobody, {0})
  \cup Request({"remove-slot"}, NoNew, No, No, No, Nobody, 1 .. MaxSlots)
  \cup Request({"keygen"}, NoNew, No, No, No, One, {0})

Changing == {"rekey", "add-password"}
Unlocking == {"rekey", "add-password", "add-recipient", "decrypt"}

\* Entries typed at the prompt, the key of the identity file, typing errors made,
\* and the vault as it was when the command began, for the properties.
NoProc == [pc |-> "idle", req |-> None, unlock |-> {}, entry |-> None, slips |-> 0,
           was |-> NoVault, code |-> 0]

At(pc) == proc.pc = pc

Exit(code) == proc' = [NoProc EXCEPT !.code = code]

\* Where a command goes when it can unlock the vault.
Unlocked(req) == IF req.name \in Changing THEN "new" ELSE "call"

\* Recipients alone need no password, unless one is given.
First(req) ==
  CASE req.name \in Unlocking -> IF req.identity THEN "load" ELSE "unlock"
    [] req.name = "encrypt"   -> IF req.given \/ req.recipients = <<>> THEN "new" ELSE "call"
    [] OTHER                  -> "call"

Begin(req) ==
  /\ At("idle")
  /\ proc' = [NoProc EXCEPT !.pc = First(req), !.req = req, !.was = vault]
  /\ wanted' = IF First(req) # "call" /\ req.new # None
                 /\ (req.new \in Weak => req.allowWeak)
              THEN wanted \cup {req.new} ELSE wanted
  /\ UNCHANGED <<vault, keyfile>>

UnlocksWith(cred) ==
  proc' = [proc EXCEPT !.unlock = cred, !.pc = Unlocked(proc.req)]

\* Identity.load; decrypt passes on a password given on the command line too.
LoadIdentity ==
  /\ At("load")
  /\ IF keyfile \in Identities
     THEN \/ UnlocksWith({keyfile})
          \/ /\ proc.req.name = "decrypt"
             /\ \E p \in Passwords : UnlocksWith({keyfile, p})
     ELSE Exit(1)
  /\ UNCHANGED <<vault, keyfile, wanted>>

\* _resolve_password without confirmation.  The prompt refuses an empty
\* password, --password does not.
EnterUnlock(p) ==
  /\ At("unlock")
  /\ \/ UnlocksWith({p})
     \/ p = Empty /\ Exit(1)
  /\ UNCHANGED <<vault, keyfile, wanted>>

\* (mutation) only what is typed at the prompt has its strength checked.
AcceptedGiven(req, p) == p \notin Weak \/ req.allowWeak \/ req.given

\* _enforce_strength
Accepted(req, p) == p \notin Weak \/ req.allowWeak

\* The new password: an argument is what was meant; an entry at the prompt may
\* be a typing error.
EnterNew(p) ==
  /\ At("new")
  /\ IF proc.req.given
     THEN /\ p = proc.req.new
          /\ IF Accepted(proc.req, p) THEN proc' = [proc EXCEPT !.entry = p, !.pc = "call"]
             ELSE Exit(1)
     ELSE proc' = [proc EXCEPT !.entry = p, !.pc = "confirm",
                               !.slips = IF p = proc.req.new THEN 0 ELSE 1]
  /\ UNCHANGED <<vault, keyfile, wanted>>

\* (mutation) the second entry is taken without a look at the first.
MatchesAny(p) == TRUE

Matches(p) == p = proc.entry

\* One typing error at most in two entries.
Confirm(p) ==
  /\ At("confirm")
  /\ p = proc.req.new \/ proc.slips = 0
  /\ IF Matches(p) /\ p # Empty /\ Accepted(proc.req, p)
     THEN proc' = [proc EXCEPT !.entry = p, !.pc = "call"]
     ELSE Exit(1)
  /\ UNCHANGED <<vault, keyfile, wanted>>

-----------------------------------------------------------------------------
(* The call of the service. *)

Req == proc.req

Calls(name) == At("call") /\ Req.name = name /\ UNCHANGED wanted

Returned == proc' = [proc EXCEPT !.pc = "report"] /\ UNCHANGED <<keyfile, wanted>>

CallRekey ==
  Calls("rekey") /\ Returned /\ \E old \in proc.unlock : Rekey(old, proc.entry)

CallAddPassword ==
  Calls("add-password") /\ Returned /\ AddPassword(proc.unlock, proc.entry)

CallAddRecipient ==
  Calls("add-recipient") /\ Returned /\ AddRecipient(proc.unlock, Req.recipients[1])

CallRemoveSlot == Calls("remove-slot") /\ Returned /\ RemoveSlot(Req.index)

CallDecrypt ==
  /\ Calls("decrypt") /\ Returned
  /\ IsReady /\ CanRecover(vault.slots, proc.unlock) /\ UNCHANGED vault

\* inspect reads the front of the file, which is there once it is written.
CallInfo == Calls("info") /\ Returned /\ vault # NoVault /\ UNCHANGED vault

\* The output is emptied when the call begins...
CallEncrypt ==
  /\ Calls("encrypt") /\ EncryptStarts
  /\ proc' = [proc EXCEPT !.pc = "sealing"] /\ UNCHANGED keyfile

\* ...and holds the vault when it returns.
Passphrases == IF proc.entry = None THEN <<>> ELSE <<proc.entry>>

EncryptReturns(d) ==
  /\ At("sealing") /\ Returned
  /\ LET slots == BuiltSlots(d, Passphrases, Req.recipients) IN
       SectionFits(slots) /\ vault' = Ready(d, slots)

EncryptRaises ==
  At("sealing") /\ EncryptFails /\ Exit(1) /\ UNCHANGED <<keyfile, wanted>>

\* keygen writes over the identity file that is there, or fails when it has
\* been emptied.
CallKeygen ==
  /\ Calls("keygen")
  /\ \/ /\ keyfile' = Req.recipients[1]
        /\ proc' = [proc EXCEPT !.pc = "report"]
     \/ keyfile' = "malformed" /\ Exit(1)
  /\ UNCHANGED vault

\* The result is printed.
Reports == At("report") /\ Exit(0) /\ UNCHANGED <<vault, keyfile, wanted>>

\* (mutation) an error is reported, and the program still returns 0.
RaisesSilently ==
  /\ proc.pc \notin {"idle", "sealing"}
  /\ Exit(0)
  /\ UNCHANGED <<vault, keyfile, wanted>>

\* FileNotFoundError, OSError or a VaultError, of the command's own arguments or
\* of the service, or what nothing catches, such as Ctrl-C: at a prompt, in the
\* call ahead of any effect, or when the result cannot be printed.
Raises ==
  /\ proc.pc \notin {"idle", "sealing"}
  /\ Exit(1)
  /\ UNCHANGED <<vault, keyfile, wanted>>

-----------------------------------------------------------------------------
CliInit ==
  /\ Init
  /\ keyfile = "missing"
  /\ proc = NoProc
  /\ wanted = {}

CliNext ==
  \/ \E req \in Requests : Begin(req)
  \/ LoadIdentity
  \/ \E p \in Passwords : EnterUnlock(p) \/ EnterNew(p) \/ Confirm(p)
  \/ CallRekey \/ CallAddPassword \/ CallAddRecipient \/ CallRemoveSlot
  \/ CallDecrypt \/ CallInfo \/ CallEncrypt \/ CallKeygen
  \/ \E d \in Deks : EncryptReturns(d)
  \/ EncryptRaises \/ Reports \/ Raises

CliSpec == CliInit /\ [][CliNext]_cliVars

-----------------------------------------------------------------------------
\* The passwords that have a slot.
Sealed == IF IsReady THEN Openers(vault.slots) \cap Passwords ELSE {}

\* Whatever commands ran and however their prompts were answered, a password
\* has a slot only when some command line wanted it in the vault, and a weak one only
\* when it said --allow-weak: one typing error never adds a password
\* nobody meant (cli.py 15-19), and no way in avoids the strength check
\* (README.md 99-101, strength.py 5-6).
OnlyMeantSealed == Sealed \subseteq wanted

\* The secrets the command line puts into the vault.
Given ==
  {p \in {proc.entry} : p # None}
  \cup (IF Req.name = "keygen" THEN {} ELSE {Req.recipients[i] : i \in DOMAIN Req.recipients})

\* What the command is for has happened, all of it: it was let in by a secret of
\* the vault it began with where it needs one, every secret it names opens the
\* vault it leaves, nobody else does who did not before, and a command that
\* edits nothing has left the vault alone.
Done ==
  LET was == proc.was IN
  /\ Req.name \in Unlocking => was.state = "ready" /\ CanRecover(was.slots, proc.unlock)
  /\ Req.name \in {"decrypt", "info", "keygen"} => vault = was
  /\ Req.name \notin {"decrypt", "info", "keygen"} =>
       /\ IsReady /\ Given \subseteq Openers(vault.slots)
       /\ Openers(vault.slots) \ Given \subseteq
            IF Req.name = "encrypt" THEN {} ELSE Openers(was.slots)
  /\ Req.name = "remove-slot" => Len(vault.slots) + 1 = Len(was.slots)

\* A command that returns 0 has done what it is for (cli.py 141-213).  One that
\* fails tells less: the vault is as it was, or it is all done and only the
\* print failed, or an encryption had begun; there is nothing in between.
ExitCodeTells ==
  [][~At("idle") /\ At("idle")' =>
       \/ Done /\ vault' = vault
       \/ proc'.code = 1 /\ vault' = proc.was
       \/ proc'.code = 1 /\ Req.name = "encrypt" /\ vault' = PartialVault]_cliVars
=============================================================================
