---------------------------- MODULE VaultCliProofs ----------------------------
(***************************************************************************)
(* Proofs about VaultCli for any secrets, any number of commands and any   *)
(* slot limit: the command line only puts passwords into the vault that    *)
(* were meant, and its exit codes tell what was done.                      *)
(***************************************************************************)
EXTENDS VaultCli, VaultSpecProofs

Vaults ==
  {NoVault, Encrypting, PartialVault}
  \cup [state : {"ready"}, dek : Deks, slots : Seq(Slot)]

\* The places at which a command has had no effect yet.
Before == {"load", "unlock", "new", "confirm", "call"}

ProcStates ==
  [pc : {"idle", "sealing", "report"} \cup Before,
   req : Requests \cup {None}, unlock : Credentials,
   entry : Passwords \cup {None}, slips : {0, 1}, was : Vaults, code : {0, 1}]

TakesNew == Changing \cup {"encrypt"}
Quiet    == {"decrypt", "info", "keygen"}

\* What a command knows at each prompt, when the passwords in w are wanted.
PromptOK(x, w) ==
  /\ x.pc # "idle" => x.req \in Requests
  /\ x.pc = "load" => x.req.identity
  /\ x.pc \in {"load", "unlock"} => x.entry = None
  /\ x.pc \in {"load", "unlock"} => x.req.name \in Unlocking
  /\ x.pc \in {"new", "confirm"} => x.req.name \in TakesNew
  /\ x.pc \in {"load", "unlock", "new", "confirm"} /\ x.req.name \in TakesNew =>
       (Accepted(x.req, x.req.new) => x.req.new \in w)
  /\ x.pc = "confirm" /\ x.slips = 0 => x.entry = x.req.new
  /\ x.pc \in {"new", "confirm", "call"} /\ x.req.name = "rekey" =>
       \E p \in Passwords : x.unlock = {p}

\* What it has in hand when it calls the service.
CallOK(x, w) ==
  /\ x.pc \in {"call", "sealing"} =>
       /\ x.entry # None => x.entry \in w /\ x.req.name \in TakesNew
       /\ x.req.name \in Changing => x.entry # None
  /\ x.pc = "sealing" => x.req.name = "encrypt"

GoodProc(x, w) == x \in ProcStates /\ PromptOK(x, w) /\ CallOK(x, w)

\* Until its call the vault is as the command found it, and once the call has
\* returned all is done.
CliInv ==
  /\ IInv
  /\ wanted \subseteq Passwords
  /\ GoodProc(proc, wanted)
  /\ proc.pc \in Before => vault = proc.was
  /\ proc.pc = "sealing" => vault = Encrypting
  /\ proc.pc = "report" => Done
  /\ OnlyMeantSealed

\* What ExitCodeTells says of a step.
Tells ==
  ~At("idle") /\ At("idle")' =>
    \/ Done /\ vault' = vault
    \/ proc'.code = 1 /\ vault' = proc.was
    \/ proc'.code = 1 /\ Req.name = "encrypt" /\ vault' = PartialVault

GoodStep == CliInv' /\ Tells

-----------------------------------------------------------------------------
(* Steps that leave the vault alone. *)

\* A command that has ended or not begun.
LEMMA NoProcIsGood ==
  ASSUME NEW w, NEW code \in {0, 1}
  PROVE  GoodProc([NoProc EXCEPT !.code = code], w)
<1> DEFINE x == [NoProc EXCEPT !.code = code]
<1>1. x \in ProcStates /\ x.pc = "idle"
  BY DEF NoProc, ProcStates, Credentials, Vaults
<1> HIDE DEF x
<1>2. GoodProc(x, w)
  BY <1>1 DEF GoodProc, PromptOK, CallOK, ProcStates
<1> QED
  BY <1>2 DEF x

\* A command goes on, having had no effect.
LEMMA QuietStep ==
  ASSUME CliInv, NEW new, proc' = new, new.pc \in Before, new.was = vault,
         GoodProc(new, wanted'), wanted \subseteq wanted', wanted' \subseteq Passwords,
         vault' = vault
  PROVE  GoodStep
<1>1. IInv'
  BY DEF CliInv, IInv, TypeOK, EverySlotOpens, IsReady
<1>2. OnlyMeantSealed'
  BY DEF CliInv, OnlyMeantSealed, Sealed, IsReady
<1>3. new.pc \notin {"idle", "sealing", "report"}
  BY DEF Before
<1> QED
  BY <1>1, <1>2, <1>3 DEF CliInv, GoodStep, Tells, At

\* A command ends without an effect of this step.
LEMMA QuietExit ==
  ASSUME CliInv, NEW code \in {0, 1}, Exit(code), UNCHANGED <<vault, wanted>>,
         proc.pc = "report" \/ (proc.pc \in Before /\ code = 1)
  PROVE  GoodStep
<1> DEFINE new == [NoProc EXCEPT !.code = code]
<1>1. proc' = new /\ GoodProc(new, wanted') /\ new.pc = "idle" /\ new.code = code
  BY NoProcIsGood DEF Exit, NoProc
<1> HIDE DEF new
<1>2. IInv'
  BY DEF CliInv, IInv, TypeOK, EverySlotOpens, IsReady
<1>3. OnlyMeantSealed'
  BY DEF CliInv, OnlyMeantSealed, Sealed, IsReady
<1>4. CliInv'
  BY <1>1, <1>2, <1>3 DEF CliInv, Before
<1>5. Tells
  BY <1>1 DEF Tells, CliInv
<1> QED
  BY <1>4, <1>5 DEF GoodStep

-----------------------------------------------------------------------------
(* The prompts. *)

LEMMA BeginStep ==
  ASSUME CliInv, NEW req \in Requests, Begin(req)
  PROVE  GoodStep
<1> DEFINE new == [NoProc EXCEPT !.pc = First(req), !.req = req, !.was = vault]
<1>1. /\ proc' = new /\ vault' = vault
      /\ wanted' = IF First(req) # "call" /\ req.new # None
                      /\ (req.new \in Weak => req.allowWeak)
                   THEN wanted \cup {req.new} ELSE wanted
  BY DEF Begin
<1>2. First(req) \in {"load", "unlock", "new", "call"}
  BY DEF First
<1>3. new \in ProcStates
  <2> DEFINE pc == First(req)
  <2>1. {} \in Credentials /\ pc \in Before /\ vault \in Vaults
    BY <1>2 DEF Credentials, CliInv, IInv, TypeOK, Vaults, Before
  <2> HIDE DEF pc
  <2>2. [NoProc EXCEPT !.pc = pc, !.req = req, !.was = vault] \in ProcStates
    BY <2>1 DEF NoProc, ProcStates
  <2> QED
    BY <2>2 DEF pc
<1>4. new.pc = First(req) /\ new.req = req /\ new.entry = None /\ new.was = vault
  BY DEF NoProc
<1>5. /\ req.new \in Passwords \cup {None}
      /\ req.name \in TakesNew => req.new \in Passwords
  BY DEF Requests, Request, NoNew, No, TakesNew, Changing
<1>6. wanted \subseteq wanted' /\ wanted' \subseteq Passwords
  BY <1>1, <1>5 DEF CliInv
<1>7. /\ First(req) = "load" => req.identity /\ req.name \in Unlocking
      /\ First(req) = "unlock" => req.name \in Unlocking
      /\ First(req) = "new" => req.name = "encrypt"
      /\ First(req) = "call" => req.name \notin Unlocking
  BY DEF First, Unlocking
<1>8. First(req) # "call" /\ req.name \in TakesNew =>
        (Accepted(req, req.new) => req.new \in wanted')
  BY <1>1, <1>5, VaultCliAssumption DEF Accepted, Secrets
<1> HIDE DEF new
<1>9. PromptOK(new, wanted')
  BY <1>2, <1>4, <1>7, <1>8 DEF PromptOK, TakesNew, Unlocking
<1>10. CallOK(new, wanted')
  BY <1>2, <1>4, <1>7 DEF CallOK, Unlocking, Changing
<1> QED
  BY <1>1, <1>2, <1>3, <1>4, <1>6, <1>9, <1>10, QuietStep DEF GoodProc, Before

\* A credential has been found.
LEMMA UnlocksStep ==
  ASSUME CliInv, NEW cred \in Credentials,
         proc.pc \in {"load", "unlock"}, UnlocksWith(cred),
         proc.req.name = "rekey" => \E p \in Passwords : cred = {p},
         UNCHANGED <<vault, wanted>>
  PROVE  GoodStep
<1> DEFINE x == proc
           new == [x EXCEPT !.unlock = cred, !.pc = Unlocked(x.req)]
<1>1. proc' = new /\ GoodProc(x, wanted) /\ x.pc \in {"load", "unlock"} /\ x.was = vault
  BY DEF UnlocksWith, CliInv, Before
<1>2. Unlocked(x.req) \in {"new", "call"}
  BY DEF Unlocked
<1>3. x.req.name = "rekey" => \E p \in Passwords : cred = {p}
  OBVIOUS
<1> HIDE DEF x
<1>4. new \in ProcStates
  BY <1>1, <1>2 DEF GoodProc, ProcStates, Before
<1>5. /\ new.pc = Unlocked(x.req) /\ new.req = x.req /\ new.unlock = cred
      /\ new.entry = x.entry /\ new.was = vault
  BY <1>1 DEF GoodProc, ProcStates
<1>6. x.req.name \in Unlocking /\ x.req \in Requests /\ x.entry = None
  BY <1>1 DEF GoodProc, PromptOK
<1>7. /\ x.req.name \in Changing => Unlocked(x.req) = "new"
      /\ x.req.name \notin Changing => Unlocked(x.req) = "call"
  BY DEF Unlocked
<1>8. x.req.name \in Changing =>
        (Accepted(x.req, x.req.new) => x.req.new \in wanted)
  BY <1>1 DEF GoodProc, PromptOK, TakesNew
<1> HIDE DEF new
<1>9. PromptOK(new, wanted)
  BY <1>2, <1>3, <1>5, <1>6, <1>7, <1>8 DEF PromptOK, TakesNew
<1>10. CallOK(new, wanted)
  BY <1>2, <1>5, <1>6, <1>7 DEF CallOK, Unlocking, Changing
<1>11. GoodProc(new, wanted') /\ new.pc \in Before
  BY <1>2, <1>4, <1>5, <1>9, <1>10 DEF GoodProc, Before
<1> QED
  BY <1>1, <1>5, <1>11, QuietStep DEF CliInv

\* The identity file is loaded, or a password entered to unlock with.
LEMMA UnlockPrompts ==
  ASSUME CliInv, LoadIdentity \/ \E p \in Passwords : EnterUnlock(p)
  PROVE  GoodStep
<1>1. GoodProc(proc, wanted)
  BY DEF CliInv
<1>2. CASE LoadIdentity
  <2>1. proc.pc = "load" /\ UNCHANGED <<vault, wanted>>
    BY <1>2 DEF LoadIdentity, At
  <2>2. proc.req.name # "rekey"
    <3>1. proc.req \in Requests /\ proc.req.identity
      BY <1>1, <2>1 DEF GoodProc, PromptOK
    <3> QED
      BY <3>1 DEF Requests, Request, No
  <2>3. CASE keyfile \notin Identities
    BY <1>2, <2>1, <2>3, QuietExit DEF LoadIdentity, Before
  <2>4. CASE keyfile \in Identities
    <3>1. ASSUME UnlocksWith({keyfile})
          PROVE  GoodStep
      <4>1. {keyfile} \in Credentials
        BY <2>4 DEF Credentials, Secrets
      <4> QED
        BY <2>1, <2>2, <3>1, <4>1, UnlocksStep
    <3>2. ASSUME NEW p \in Passwords, UnlocksWith({keyfile, p})
          PROVE  GoodStep
      <4>1. {keyfile, p} = {p, keyfile} /\ {p, keyfile} \in Credentials
        BY <2>4 DEF Credentials
      <4> QED
        BY <2>1, <2>2, <3>2, <4>1, UnlocksStep
    <3> QED
      BY <1>2, <2>4, <3>1, <3>2 DEF LoadIdentity
  <2> QED
    BY <2>3, <2>4
<1>3. ASSUME NEW p \in Passwords, EnterUnlock(p)
      PROVE  GoodStep
  <2>1. proc.pc = "unlock" /\ UNCHANGED <<vault, wanted>>
    BY <1>3 DEF EnterUnlock, At
  <2>2. {p} \in Credentials
    BY DEF Credentials, Secrets
  <2>3. CASE UnlocksWith({p})
    BY <2>1, <2>2, <2>3, UnlocksStep
  <2>4. CASE Exit(1)
    BY <2>1, <2>4, QuietExit DEF Before
  <2> QED
    BY <1>3, <2>3, <2>4 DEF EnterUnlock
<1> QED
  BY <1>2, <1>3

\* A new password goes to the service only when it is the one that was meant
\* and may be used.
LEMMA TakenStep ==
  ASSUME CliInv, NEW p \in Passwords,
         proc.pc \in {"new", "confirm"}, p = proc.req.new,
         Accepted(proc.req, p),
         proc' = [proc EXCEPT !.entry = p, !.pc = "call"],
         UNCHANGED <<vault, wanted>>
  PROVE  GoodStep
<1> DEFINE x == proc
           new == [x EXCEPT !.entry = p, !.pc = "call"]
<1>1. GoodProc(x, wanted) /\ proc' = new /\ x.was = vault
  BY DEF CliInv, Before
<1>2. p \in wanted /\ x.req \in Requests /\ x.req.name \in TakesNew
  BY <1>1 DEF GoodProc, PromptOK
<1>3. x.req.name = "rekey" => \E q \in Passwords : x.unlock = {q}
  BY <1>1 DEF GoodProc, PromptOK
<1>4. p # None
  BY VaultCliAssumption DEF Secrets
<1> HIDE DEF x
<1>5. new \in ProcStates
  BY <1>1 DEF GoodProc, ProcStates, Before
<1>6. /\ new.pc = "call" /\ new.req = x.req /\ new.unlock = x.unlock
      /\ new.entry = p /\ new.was = vault
  BY <1>1 DEF GoodProc, ProcStates
<1> HIDE DEF new
<1>7. PromptOK(new, wanted) /\ CallOK(new, wanted)
  BY <1>2, <1>3, <1>4, <1>6 DEF PromptOK, CallOK
<1>8. GoodProc(new, wanted') /\ new.pc \in Before
  BY <1>5, <1>6, <1>7 DEF GoodProc, Before
<1> QED
  BY <1>1, <1>6, <1>8, QuietStep DEF CliInv

\* The prompts for a new password.
LEMMA NewPrompts ==
  ASSUME CliInv, NEW p \in Passwords, EnterNew(p) \/ Confirm(p)
  PROVE  GoodStep
<1> DEFINE x == proc
<1>0. GoodProc(x, wanted) /\ UNCHANGED <<vault, wanted>>
  BY DEF CliInv, EnterNew, Confirm
<1>1. CASE EnterNew(p) /\ x.req.given
  <2>1. x.pc = "new" /\ p = x.req.new
    BY <1>1 DEF EnterNew, At
  <2>2. CASE Accepted(x.req, p)
    BY <1>0, <1>1, <2>1, <2>2, TakenStep DEF EnterNew
  <2>3. CASE ~Accepted(x.req, p)
    BY <1>0, <1>1, <2>1, <2>3, QuietExit DEF EnterNew, Before
  <2> QED
    BY <2>2, <2>3
<1>2. CASE EnterNew(p) /\ ~x.req.given
  <2> DEFINE slips == IF p = x.req.new THEN 0 ELSE 1
             new == [x EXCEPT !.entry = p, !.pc = "confirm", !.slips = slips]
  <2>1. x.pc = "new" /\ proc' = new /\ x.was = vault
    BY <1>2 DEF EnterNew, At, CliInv, Before
  <2>2. slips \in {0, 1} /\ (slips = 0 => p = x.req.new)
    OBVIOUS
  <2> HIDE DEF x, slips
  <2>3. new \in ProcStates
    BY <1>0, <2>2 DEF GoodProc, ProcStates, Before
  <2>4. /\ new.pc = "confirm" /\ new.req = x.req /\ new.unlock = x.unlock
        /\ new.entry = p /\ new.slips = slips /\ new.was = vault
    BY <1>0, <2>1 DEF GoodProc, ProcStates
  <2> HIDE DEF new
  <2>5. PromptOK(new, wanted) /\ CallOK(new, wanted)
    BY <1>0, <2>1, <2>2, <2>4 DEF GoodProc, PromptOK, CallOK
  <2>6. GoodProc(new, wanted') /\ new.pc \in Before
    BY <1>0, <2>3, <2>4, <2>5 DEF GoodProc, Before
  <2> QED
    BY <1>0, <2>1, <2>4, <2>6, QuietStep DEF CliInv
<1>3. CASE Confirm(p)
  <2>1. x.pc = "confirm" /\ (p = x.req.new \/ x.slips = 0)
    BY <1>3 DEF Confirm, At
  <2>2. CASE Matches(p) /\ p # Empty /\ Accepted(x.req, p)
    <3>1. p = x.req.new
      BY <1>0, <2>1, <2>2 DEF Matches, GoodProc, PromptOK
    <3> QED
      BY <1>0, <1>3, <2>1, <2>2, <3>1, TakenStep DEF Confirm
  <2>3. CASE ~(Matches(p) /\ p # Empty /\ Accepted(x.req, p))
    BY <1>0, <1>3, <2>1, <2>3, QuietExit DEF Confirm, Before
  <2> QED
    BY <2>2, <2>3
<1> QED
  BY <1>1, <1>2, <1>3

-----------------------------------------------------------------------------
(* The calls of the service. *)

\* A call returns, having done all the command is for.
LEMMA ReturnStep ==
  ASSUME CliInv, proc' = [proc EXCEPT !.pc = "report"], UNCHANGED wanted,
         proc.pc \in {"call", "sealing"}, [Next]_vars, OnlyMeantSealed',
         proc.req.name \in Unlocking =>
           proc.was.state = "ready" /\ CanRecover(proc.was.slots, proc.unlock),
         proc.req.name \in Quiet => vault' = proc.was,
         proc.req.name \notin Quiet =>
           /\ IsReady' /\ Given \subseteq Openers(vault'.slots)
           /\ Openers(vault'.slots) \ Given \subseteq
                IF proc.req.name = "encrypt" THEN {} ELSE Openers(proc.was.slots),
         proc.req.name = "remove-slot" => Len(vault'.slots) + 1 = Len(proc.was.slots)
  PROVE  GoodStep
<1> DEFINE x == proc
           new == [x EXCEPT !.pc = "report"]
<1>1. proc' = new /\ GoodProc(x, wanted) /\ x.pc \in {"call", "sealing"}
  BY DEF CliInv
<1>2. new \in ProcStates
  BY <1>1 DEF GoodProc, ProcStates, Before
<1>3. /\ new.pc = "report" /\ new.req = x.req /\ new.unlock = x.unlock
      /\ new.entry = x.entry /\ new.was = x.was
  BY <1>1 DEF GoodProc, ProcStates
<1>4. GoodProc(new, wanted')
  BY <1>1, <1>2, <1>3 DEF GoodProc, PromptOK, CallOK
<1>5. /\ proc'.pc = "report" /\ proc'.req = proc.req /\ proc'.unlock = proc.unlock
      /\ proc'.entry = proc.entry /\ proc'.was = proc.was
  BY <1>1, <1>3
<1>6. Given' = Given
  BY <1>5 DEF Given, Req
<1>7. Done'
  BY <1>5, <1>6 DEF Done, Req, Quiet
<1>8. IInv'
  BY StepOK DEF CliInv
<1> HIDE DEF new, x
<1>9. CliInv'
  BY <1>1, <1>4, <1>5, <1>7, <1>8 DEF CliInv, Before
<1> QED
  BY <1>5, <1>9 DEF GoodStep, Tells, At

\* A command that asks and changes nothing, or writes a key.
LEMMA QuietReturns ==
  ASSUME CliInv, proc' = [proc EXCEPT !.pc = "report"], UNCHANGED <<vault, wanted>>,
         proc.pc = "call", proc.req.name \in Quiet,
         proc.req.name = "decrypt" => IsReady /\ CanRecover(vault.slots, proc.unlock)
  PROVE  GoodStep
<1>1. vault = proc.was
  BY DEF CliInv, Before
<1>2. OnlyMeantSealed'
  BY DEF CliInv, OnlyMeantSealed, Sealed, IsReady
<1>3. [Next]_vars
  BY DEF vars
<1>4. proc.req.name \in Unlocking => proc.req.name = "decrypt"
  BY DEF Quiet, Unlocking
<1>5. proc.req.name # "remove-slot"
  BY DEF Quiet
<1> QED
  BY <1>1, <1>2, <1>3, <1>4, <1>5, ReturnStep DEF IsReady

\* Secrets the command line has for the vault.
LEMMA GivenFacts ==
  ASSUME CliInv, proc.pc \in {"call", "sealing"}
  PROVE  /\ proc.req \in Requests /\ proc.unlock \in Credentials
         /\ proc.entry # None => proc.entry \in wanted /\ proc.entry \in Passwords
         /\ proc.req.name \in Changing => proc.entry # None /\ Given = {proc.entry}
         /\ proc.req.name = "remove-slot" => Given = {}
         /\ proc.req.name = "add-recipient" =>
              Given = {proc.req.recipients[1]} /\ proc.req.recipients[1] \in Identities
<1> DEFINE x == proc
<1>1. GoodProc(x, wanted) /\ x.pc \in {"call", "sealing"}
  BY DEF CliInv
<1> HIDE DEF x
<1>2. /\ x.req \in Requests /\ x.unlock \in Credentials
      /\ x.entry # None => x.entry \in wanted /\ x.entry \in Passwords
      /\ x.req.name \in Changing => x.entry # None
      /\ x.req.name \notin TakesNew => x.entry = None
  BY <1>1 DEF GoodProc, PromptOK, CallOK, ProcStates
<1>3. /\ x.req.name \in Changing \cup {"remove-slot"} => x.req.recipients = <<>>
      /\ x.req.name = "add-recipient" => x.req.recipients \in One
  BY <1>2 DEF Requests, Request, Nobody, Changing
<1>4. x.req.name \in Changing \cup {"remove-slot", "add-recipient"} =>
        Given = {p \in {x.entry} : p # None}
                  \cup {x.req.recipients[i] : i \in DOMAIN x.req.recipients}
  BY DEF Given, Req, Changing, x
<1>5. x.req.name \in Changing => Given = {x.entry}
  <2> SUFFICES ASSUME x.req.name \in Changing PROVE Given = {x.entry}
    OBVIOUS
  <2>1. x.req.recipients = <<>> /\ x.entry # None
    BY <1>2, <1>3
  <2>2. DOMAIN x.req.recipients = {}
    BY <2>1
  <2> QED
    BY <1>4, <2>1, <2>2
<1>6. x.req.name = "remove-slot" => Given = {}
  <2> SUFFICES ASSUME x.req.name = "remove-slot" PROVE Given = {}
    OBVIOUS
  <2>1. x.req.recipients = <<>> /\ x.entry = None
    BY <1>2, <1>3 DEF TakesNew, Changing
  <2>2. DOMAIN x.req.recipients = {}
    BY <2>1
  <2> QED
    BY <1>4, <2>1, <2>2
<1>7. x.req.name = "add-recipient" =>
        Given = {x.req.recipients[1]} /\ x.req.recipients[1] \in Identities
  <2> SUFFICES ASSUME x.req.name = "add-recipient"
               PROVE  Given = {x.req.recipients[1]} /\ x.req.recipients[1] \in Identities
    OBVIOUS
  <2>1. x.req.recipients \in [{1} -> Identities] /\ x.entry = None
    BY <1>2, <1>3 DEF TakesNew, Changing, One
  <2> QED
    BY <1>4, <2>1
<1> QED
  BY <1>2, <1>5, <1>6, <1>7 DEF x

\* A published section with no other passwords than before and one wanted.
LEMMA PublishMeant ==
  ASSUME CliInv, IsReady, NEW slots \in Seq(Slot), WrapsOnly(slots, vault.dek),
         Publish(slots), UNCHANGED wanted,
         NEW new, new \in Passwords => new \in wanted,
         Openers(slots) \ {new} \subseteq Openers(vault.slots)
  PROVE  OnlyMeantSealed'
<1>1. vault'.slots = slots /\ Openers(vault.slots) \cap Passwords \subseteq wanted
  BY PublishKeeps DEF CliInv, OnlyMeantSealed, Sealed
<1> QED
  BY <1>1 DEF OnlyMeantSealed, Sealed

\* A published section that opens for one more secret, the one that was given.
LEMMA EditReturns ==
  ASSUME CliInv, proc.pc = "call", Returned, Next, IsReady,
         proc.req.name \in Changing \cup {"add-recipient", "remove-slot"},
         proc.req.name \in Unlocking => CanRecover(vault.slots, proc.unlock),
         NEW slots \in Seq(Slot), WrapsOnly(slots, vault.dek), Publish(slots),
         Given \subseteq Openers(slots), Openers(slots) \ Given \subseteq Openers(vault.slots),
         \A p \in Given : p \in Passwords => p \in wanted,
         proc.req.name = "remove-slot" => Len(slots) + 1 = Len(vault.slots)
  PROVE  GoodStep
<1>1. proc' = [proc EXCEPT !.pc = "report"] /\ UNCHANGED wanted /\ vault = proc.was
  BY DEF Returned, CliInv, Before
<1>2. IsReady' /\ vault'.slots = slots
  BY DEF Publish, Ready, IsReady
<1>3. OnlyMeantSealed'
  BY <1>2, <1>1 DEF CliInv, OnlyMeantSealed, Sealed
<1>4. proc.req.name \notin Quiet /\ proc.req.name # "encrypt"
  BY DEF Quiet, Changing
<1>5. [Next]_vars
  OBVIOUS
<1> QED
  BY <1>1, <1>2, <1>3, <1>4, <1>5, ReturnStep DEF IsReady

\* Each slot of a section opens it, the new one too.
LEMMA SlotOpens ==
  ASSUME NEW slots, NEW i \in 1 .. Len(slots)
  PROVE  slots[i].secret \in Openers(slots)
BY DEF Openers

LEMMA NewSecretOpens ==
  ASSUME NEW slots \in Seq(Slot), NEW cred, NEW new, CanRecover(slots, cred)
  PROVE  /\ new \in Openers(Added(slots, cred, new))
         /\ \A old : cred = {old} => new \in Openers(Rekeyed(slots, old, new))
<1>1. new \in Openers(Added(slots, cred, new))
  <2> DEFINE r == Added(slots, cred, new)
             n == Len(slots)
  <2>1. n \in Nat /\ Len(r) = n + 1 /\ r[n + 1].secret = new
    BY DEF Added, Wrap
  <2>2. n + 1 \in 1 .. Len(r)
    BY <2>1
  <2>3. r[n + 1].secret \in Openers(r)
    BY <2>2, SlotOpens
  <2> QED
    BY <2>1, <2>3
<1>2. ASSUME NEW old, cred = {old}
      PROVE  new \in Openers(Rekeyed(slots, old, new))
  <2> DEFINE i == FirstOpen(slots, {old})
             r == Rekeyed(slots, old, new)
  <2>1. i \in 1 .. Len(slots)
    BY <1>2, FirstOpenIsOpen
  <2>2. Len(r) = Len(slots) /\ r[i].secret = new
    BY <2>1 DEF Rekeyed, Wrap
  <2> HIDE DEF r, i
  <2>3. r[i].secret \in Openers(r)
    BY <2>1, <2>2, SlotOpens
  <2> QED
    BY <2>2, <2>3 DEF r
<1> QED
  BY <1>1, <1>2

\* A section opens with more secrets where it opens with one of them.
LEMMA MoreRecovers ==
  ASSUME NEW slots, NEW c, NEW d, c \subseteq d, CanRecover(slots, c)
  PROVE  CanRecover(slots, d)
BY DEF CanRecover, OpenSlots, Opens

LEMMA EditCalls ==
  ASSUME CliInv, CallRekey \/ CallAddPassword \/ CallAddRecipient \/ CallRemoveSlot
  PROVE  GoodStep
<1> DEFINE x == proc
<1>0. GoodProc(x, wanted) /\ x.pc = "call" /\ Returned
  BY DEF CliInv, CallRekey, CallAddPassword, CallAddRecipient, CallRemoveSlot, Calls, At
<1>1. /\ x.req \in Requests /\ x.unlock \in Credentials
      /\ x.entry # None => x.entry \in wanted /\ x.entry \in Passwords
      /\ x.req.name \in Changing => x.entry # None /\ Given = {x.entry}
      /\ x.req.name = "remove-slot" => Given = {}
      /\ x.req.name = "add-recipient" =>
           Given = {x.req.recipients[1]} /\ x.req.recipients[1] \in Identities
  BY <1>0, GivenFacts
<1>2. CASE CallRekey
  <2>1. PICK old \in x.unlock : Rekey(old, x.entry)
    BY <1>2 DEF CallRekey
  <2>2. x.req.name = "rekey" /\ x.req.name \in Changing
    BY <1>2 DEF CallRekey, Calls, Req, Changing
  <2>3. old \in Passwords /\ x.entry \in wanted /\ x.entry \in Passwords
    BY <1>0, <1>1, <2>2 DEF GoodProc, PromptOK
  <2>4. Next
    BY <2>1, <2>3 DEF Next
  <2> DEFINE r == Rekeyed(vault.slots, old, x.entry)
  <2>5. IsReady /\ CanRecover(vault.slots, {old}) /\ Publish(r)
    BY <2>1 DEF Rekey
  <2>6. /\ r \in Seq(Slot) /\ WrapsOnly(r, vault.dek)
        /\ Openers(r) \ {x.entry} \subseteq Openers(vault.slots)
    BY <2>3, <2>5, ReadyFacts, RekeyedProperties DEF CliInv
  <2>7. x.entry \in Openers(r) /\ CanRecover(vault.slots, x.unlock)
    <3>1. vault.slots \in Seq(Slot) /\ {old} \subseteq x.unlock
      BY <2>1, <2>5, ReadyFacts DEF CliInv
    <3> HIDE DEF x
    <3> QED
      BY <2>5, <3>1, NewSecretOpens, MoreRecovers
  <2> HIDE DEF r
  <2>8. x.req.name # "remove-slot"
    BY <2>2
  <2> QED
    BY <1>0, <1>1, <2>2, <2>3, <2>4, <2>5, <2>6, <2>7, <2>8, EditReturns
<1>3. ASSUME NEW new \in Secrets, Given = {new}, new \in Passwords => new \in wanted,
             x.req.name \in {"add-password", "add-recipient"},
             IsReady, CanRecover(vault.slots, x.unlock),
             Publish(Added(vault.slots, x.unlock, new)), Next
      PROVE  GoodStep
  <2> DEFINE r == Added(vault.slots, x.unlock, new)
  <2>1. /\ r \in Seq(Slot) /\ WrapsOnly(r, vault.dek)
        /\ Openers(r) \ {new} \subseteq Openers(vault.slots)
    BY <1>3, ReadyFacts, AddedProperties DEF CliInv
  <2>2. new \in Openers(r)
    BY <1>3, ReadyFacts, NewSecretOpens DEF CliInv
  <2>3. Publish(r)
    BY <1>3
  <2>4. x.req.name # "remove-slot" /\ x.req.name \in Changing \cup {"add-recipient"}
    BY <1>3 DEF Changing
  <2> HIDE DEF r
  <2> QED
    BY <1>0, <1>3, <2>1, <2>2, <2>3, <2>4, EditReturns
<1>4. CASE CallAddPassword
  <2>1. AddPassword(x.unlock, x.entry) /\ x.req.name = "add-password"
    BY <1>4 DEF CallAddPassword, Calls, Req
  <2>2. x.entry \in wanted /\ x.entry \in Passwords /\ Given = {x.entry}
    BY <1>1, <2>1 DEF Changing
  <2>3. Next
    BY <1>1, <2>1, <2>2 DEF Next
  <2> QED
    BY <1>3, <2>1, <2>2, <2>3 DEF AddPassword, Secrets
<1>5. CASE CallAddRecipient
  <2> DEFINE k == x.req.recipients[1]
  <2>1. AddRecipient(x.unlock, k) /\ x.req.name = "add-recipient"
    BY <1>5 DEF CallAddRecipient, Calls, Req
  <2>2. k \in Identities /\ Given = {k}
    BY <1>1, <2>1
  <2> HIDE DEF k
  <2>3. k \notin Passwords
    BY <2>2, KeySlotsAssumption
  <2>4. Next
    BY <1>1, <2>1, <2>2 DEF Next
  <2> QED
    BY <1>3, <2>1, <2>2, <2>3, <2>4 DEF AddRecipient, Secrets
<1>6. CASE CallRemoveSlot
  <2> DEFINE i == x.req.index
             r == Removed(vault.slots, i)
  <2>1. RemoveSlot(i) /\ x.req.name = "remove-slot"
    BY <1>6 DEF CallRemoveSlot, Calls, Req
  <2>2. i \in 1 .. MaxSlots
    BY <1>1, <2>1 DEF Requests, Request
  <2>3. Next /\ IsReady /\ i \in 1 .. Len(vault.slots) /\ Publish(r)
    BY <2>1, <2>2 DEF Next, RemoveSlot, Removable
  <2>4. /\ r \in Seq(Slot) /\ WrapsOnly(r, vault.dek)
        /\ Openers(r) \subseteq Openers(vault.slots)
    BY <2>3, ReadyFacts, RemovedProperties DEF CliInv
  <2>5. Len(r) + 1 = Len(vault.slots)
    <3>1. Len(vault.slots) \in Nat \ {0}
      BY <2>3, ReadyFacts DEF CliInv
    <3> QED
      BY <3>1 DEF Removed
  <2> HIDE DEF r, i
  <2>6. Given = {} /\ x.req.name \notin Unlocking
    BY <1>1, <2>1 DEF Unlocking
  <2> QED
    BY <1>0, <2>1, <2>3, <2>4, <2>5, <2>6, EditReturns
<1> QED
  BY <1>2, <1>4, <1>5, <1>6

\* An encryption empties the vault when it begins...
LEMMA EncryptBegins ==
  ASSUME CliInv, CallEncrypt
  PROVE  GoodStep
<1> DEFINE x == proc
           new == [x EXCEPT !.pc = "sealing"]
<1>1. /\ GoodProc(x, wanted) /\ x.pc = "call" /\ x.req.name = "encrypt"
      /\ proc' = new /\ UNCHANGED wanted /\ vault' = Encrypting
  BY DEF CliInv, CallEncrypt, Calls, At, Req, EncryptStarts
<1> HIDE DEF x
<1>2. new \in ProcStates
  BY <1>1 DEF GoodProc, ProcStates
<1>3. new.pc = "sealing" /\ new.req = x.req /\ new.entry = x.entry
  BY <1>1 DEF GoodProc, ProcStates
<1> HIDE DEF new
<1>4. GoodProc(new, wanted')
  BY <1>1, <1>2, <1>3 DEF GoodProc, PromptOK, CallOK
<1>5. Next
  BY <1>1 DEF EncryptStarts, Next
<1>6. IInv' /\ OnlyMeantSealed'
  BY <1>1, <1>5, StepOK DEF CliInv, OnlyMeantSealed, Sealed, IsReady, Encrypting
<1>7. CliInv'
  BY <1>1, <1>3, <1>4, <1>6 DEF CliInv, Before
<1> QED
  BY <1>1, <1>3, <1>7 DEF GoodStep, Tells, At

\* ...and leaves one that its command line asked for, or none.
LEMMA EncryptFinishes ==
  ASSUME CliInv, EncryptRaises \/ \E d \in Deks : EncryptReturns(d)
  PROVE  GoodStep
<1> DEFINE x == proc
<1>1. /\ GoodProc(x, wanted) /\ x.pc = "sealing" /\ UNCHANGED wanted
      /\ vault = Encrypting /\ x.req.name = "encrypt" /\ x.req \in Requests
  BY DEF CliInv, GoodProc, CallOK, PromptOK, EncryptRaises, EncryptReturns, Returned, At
<1>2. CASE EncryptRaises
  <2> DEFINE new == [NoProc EXCEPT !.code = 1]
  <2>1. vault' = PartialVault /\ Exit(1)
    BY <1>2 DEF EncryptRaises, EncryptFails
  <2>2. proc' = new /\ GoodProc(new, wanted') /\ new.pc = "idle" /\ new.code = 1
    BY <2>1, NoProcIsGood DEF Exit, NoProc
  <2> HIDE DEF new
  <2>3. Next
    BY <1>2 DEF EncryptRaises, Next
  <2>4. IInv' /\ OnlyMeantSealed'
    BY <2>1, <2>3, StepOK DEF CliInv, OnlyMeantSealed, Sealed, IsReady, PartialVault
  <2>5. CliInv'
    BY <1>1, <2>2, <2>4 DEF CliInv, Before
  <2> QED
    BY <1>1, <2>1, <2>2, <2>5 DEF GoodStep, Tells, Req
<1>3. ASSUME NEW d \in Deks, EncryptReturns(d)
      PROVE  GoodStep
  <2> DEFINE ps == Passphrases
             ks == x.req.recipients
             slots == BuiltSlots(d, ps, ks)
             n == Len(ps) + Len(ks)
             secrets == [i \in 1 .. n |-> (ps \o ks)[i]]
  <2>1. SectionFits(slots) /\ vault' = Ready(d, slots) /\ Returned
    BY <1>3 DEF EncryptReturns, Req
  <2>2. ps = (IF x.entry = None THEN <<>> ELSE <<x.entry>>)
        /\ (x.entry # None => x.entry \in Passwords \cap wanted)
    BY <1>1 DEF Passphrases, GoodProc, CallOK, ProcStates
  <2>3. ps \in Seq(Passwords \cap wanted) /\ ps \in Seq(Passwords)
    <3> HIDE DEF x, ps
    <3>1. CASE x.entry = None
      BY <2>2, <3>1, EmptySeq
    <3>2. CASE x.entry # None
      BY <2>2, <3>2
    <3> QED
      BY <3>1, <3>2
  <2>4. ks \in Repeatable
    BY <1>1 DEF Requests, Request
  <2>5. PICK m \in Nat : ks \in [1 .. m -> Identities]
    BY <2>4 DEF Repeatable
  <2> HIDE DEF ps, ks
  <2>6. ks \in Seq(Identities) /\ Len(ks) = m
    BY <2>5, FunctionIsSeq
  <2>7. slots \in Seq(Slot) /\ Len(slots) = n /\ n \in 1 .. MaxSlots
    BY <2>1, <2>3, <2>6, BuiltSlotsType DEF SectionFits
  <2>8. \A i \in 1 .. n : (ps \o ks)[i] \in (Passwords \cap wanted) \cup Identities
    <3>1. /\ ps \in Seq((Passwords \cap wanted) \cup Identities)
          /\ ks \in Seq((Passwords \cap wanted) \cup Identities)
      BY <2>3, <2>6, SeqMonotonic
    <3>2. /\ ps \o ks \in Seq((Passwords \cap wanted) \cup Identities)
          /\ Len(ps \o ks) = n
      BY <3>1, ConcatProperties
    <3> QED
      BY <3>2, ElementOfSeq
  <2>9. secrets \in [1 .. n -> Secrets]
    BY <2>8 DEF Secrets
  <2>10. slots = [i \in 1 .. n |-> Wrap(secrets[i], d)]
    BY DEF BuiltSlots
  <2>11. Next
    BY <1>1, <2>1, <2>7, <2>9, <2>10 DEF Next, EncryptEnds
  <2>12. \A i \in 1 .. n : slots[i].secret = (ps \o ks)[i]
    BY <2>10 DEF Wrap
  <2>13. Openers(slots) = {(ps \o ks)[i] : i \in 1 .. n}
    <3> HIDE DEF slots, n
    <3> QED
      BY <2>7, <2>12 DEF Openers
  <2>14. Given = {p \in {x.entry} : p # None} \cup {ks[i] : i \in DOMAIN ks}
    BY <1>1 DEF Given, Req, ks
  <2>15. {(ps \o ks)[i] : i \in 1 .. n} = Given
    <3> HIDE DEF x
    <3>1. CASE x.entry = None
      <4>1. ps = <<>> /\ n = m /\ DOMAIN ks = 1 .. m
        BY <2>2, <2>5, <2>6, <3>1
      <4>2. \A i \in 1 .. m : (ps \o ks)[i] = ks[i]
        BY <2>6, <4>1
      <4> HIDE DEF n
      <4> QED
        BY <2>14, <3>1, <4>1, <4>2
    <3>2. CASE x.entry # None
      <4>1. ps = <<x.entry>> /\ n = m + 1 /\ DOMAIN ks = 1 .. m
        BY <2>2, <2>5, <2>6, <3>2
      <4>2. (ps \o ks)[1] = x.entry /\ \A i \in 1 .. m : (ps \o ks)[i + 1] = ks[i]
        BY <2>6, <4>1
      <4> HIDE DEF n
      <4>3. Given = {x.entry} \cup {ks[i] : i \in 1 .. m}
        BY <2>14, <3>2, <4>1
      <4>4. \A i \in 1 .. n : i = 1 \/ (i - 1 \in 1 .. m /\ (i - 1) + 1 = i)
        BY <4>1, <2>5
      <4>5. 1 \in 1 .. n /\ \A i \in 1 .. m : i + 1 \in 1 .. n
        BY <4>1, <2>5
      <4>6. \A i \in 1 .. n : (ps \o ks)[i] \in Given
        <5> SUFFICES ASSUME NEW i \in 1 .. n PROVE (ps \o ks)[i] \in Given
          OBVIOUS
        <5>1. CASE i = 1
          BY <4>2, <4>3, <5>1
        <5>2. CASE i - 1 \in 1 .. m /\ (i - 1) + 1 = i
          <6>1. PICK j \in 1 .. m : j + 1 = i
            BY <5>2
          <6>2. (ps \o ks)[i] = ks[j]
            BY <4>2, <6>1
          <6> QED
            BY <4>3, <6>2
        <5> QED
          BY <4>4, <5>1, <5>2
      <4>7. \A s \in Given : \E i \in 1 .. n : s = (ps \o ks)[i]
        BY <4>2, <4>3, <4>5
      <4> QED
        BY <4>6, <4>7
    <3> QED
      BY <3>1, <3>2
  <2>16. Openers(slots) \cap Passwords \subseteq wanted
    <3> HIDE DEF slots, n
    <3> QED
      BY <2>8, <2>13, KeySlotsAssumption
  <2> HIDE DEF slots, secrets, n
  <2>17. IsReady' /\ vault'.slots = slots
    BY <2>1 DEF Ready, IsReady
  <2>18. OnlyMeantSealed'
    BY <1>1, <2>16, <2>17 DEF OnlyMeantSealed, Sealed
  <2>19. Given \subseteq Openers(vault'.slots) /\ Openers(vault'.slots) \ Given \subseteq {}
    BY <2>13, <2>15, <2>17
  <2>20. x.req.name \notin Quiet \cup Unlocking \cup {"remove-slot"}
    BY <1>1 DEF Quiet, Unlocking
  <2>21. proc' = [proc EXCEPT !.pc = "report"] /\ [Next]_vars
    BY <2>1, <2>11 DEF Returned
  <2> QED
    BY <1>1, <2>17, <2>18, <2>19, <2>20, <2>21, ReturnStep
<1> QED
  BY <1>2, <1>3

\* The other calls, and the ends.
LEMMA OtherCalls ==
  ASSUME CliInv, CallDecrypt \/ CallInfo \/ CallKeygen \/ Reports \/ Raises
  PROVE  GoodStep
<1>1. CASE CallDecrypt
  BY <1>1, QuietReturns DEF CallDecrypt, Calls, Req, At, Returned, Quiet
<1>2. CASE CallInfo
  BY <1>2, QuietReturns DEF CallInfo, Calls, Req, At, Returned, Quiet
<1>3. CASE CallKeygen
  <2>1. /\ proc.pc = "call" /\ proc.req.name = "keygen" /\ UNCHANGED <<vault, wanted>>
        /\ proc' = [proc EXCEPT !.pc = "report"] \/ Exit(1)
    BY <1>3 DEF CallKeygen, Calls, Req, At
  <2> QED
    BY <2>1, QuietReturns, QuietExit DEF Quiet, Before
<1>4. CASE Reports
  BY <1>4, QuietExit DEF Reports, At
<1>5. CASE Raises
  <2>1. proc.pc \in Before \cup {"report"}
    BY <1>5 DEF Raises, CliInv, GoodProc, ProcStates
  <2> QED
    BY <1>5, <2>1, QuietExit DEF Raises
<1> QED
  BY <1>1, <1>2, <1>3, <1>4, <1>5

-----------------------------------------------------------------------------
\* Every step of a command keeps the invariant, and its end tells what was done.
LEMMA CliStep == CliInv /\ [CliNext]_cliVars => CliInv' /\ [Tells]_cliVars
<1> SUFFICES ASSUME CliInv, [CliNext]_cliVars
             PROVE  CliInv' /\ [Tells]_cliVars
  OBVIOUS
<1>1. CASE UNCHANGED cliVars
  <2>1. UNCHANGED <<vault, proc, wanted>>
    BY <1>1 DEF cliVars
  <2>2. IInv' /\ OnlyMeantSealed'
    BY <2>1 DEF CliInv, IInv, TypeOK, EverySlotOpens, IsReady, OnlyMeantSealed, Sealed
  <2>3. Done' <=> Done
    BY <2>1 DEF Done, Given, Req, IsReady
  <2> QED
    BY <1>1, <2>1, <2>2, <2>3 DEF CliInv
<1>2. CASE CliNext
  <2>1. GoodStep
    BY <1>2, BeginStep, UnlockPrompts, NewPrompts, EditCalls, EncryptBegins,
       EncryptFinishes, OtherCalls DEF CliNext
  <2> QED
    BY <2>1 DEF GoodStep
<1> QED
  BY <1>1, <1>2

LEMMA CliInvariance == CliSpec => []CliInv
<1>1. CliInit => CliInv
  <2> SUFFICES ASSUME CliInit PROVE CliInv
    OBVIOUS
  <2>1. GoodProc(NoProc, {})
    <3>1. NoProc = [NoProc EXCEPT !.code = 0]
      BY DEF NoProc
    <3> QED
      BY <3>1, NoProcIsGood
  <2>2. vault = NoVault /\ proc = NoProc /\ wanted = {}
    BY DEF CliInit, Init
  <2>3. IInv /\ OnlyMeantSealed
    BY <2>2 DEF IInv, TypeOK, EverySlotOpens, IsReady, NoVault, OnlyMeantSealed, Sealed
  <2>4. NoProc.pc = "idle"
    BY DEF NoProc
  <2> QED
    BY <2>1, <2>2, <2>3, <2>4 DEF CliInv, Before
<1> QED
  BY <1>1, CliStep, PTL DEF CliSpec

\* No password is ever in the vault that no command line asked for, and no weak
\* one without --allow-weak (cli.py 15-42).
THEOREM NothingUnmeantSealed == CliSpec => []OnlyMeantSealed
BY CliInvariance, PTL DEF CliInv

\* A command that returns 0 has done all it is for, and one that fails has left
\* the vault as it was, or with its edit all done, or with an encryption begun
\* (cli.py 141-213).
THEOREM ExitCodesTell == CliSpec => ExitCodeTells
<1>1. CliSpec => [][Tells]_cliVars
  BY CliStep, CliInvariance, PTL DEF CliSpec
<1>2. [Tells]_cliVars =>
        [~At("idle") /\ At("idle")' =>
           \/ Done /\ vault' = vault
           \/ proc'.code = 1 /\ vault' = proc.was
           \/ proc'.code = 1 /\ Req.name = "encrypt" /\ vault' = PartialVault]_cliVars
  BY DEF Tells
<1> QED
  BY <1>1, <1>2, PTL DEF ExitCodeTells
=============================================================================
