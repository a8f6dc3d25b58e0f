---------------------------- MODULE SigningKeys ----------------------------
(***************************************************************************)
(* The signing keys: a directory of key files, the command that adds one,  *)
(* the replicas that load it when they start, and the verifiers that keep  *)
(* a copy of the JWKS.  Nothing tells a running replica of a new file.     *)
(*                                                                         *)
(* A key id begins with the time of its creation; here ids are numbers, in *)
(* the order that from_pems sorts them.  The operator follows the rotation *)
(* procedure of docs/security.md, replica by replica: the new key is       *)
(* added, then the old one pinned while the new one is published, then the *)
(* pin taken away, then the old key deleted.  Any replica may stop and be  *)
(* restarted in between, with the settings it last had; one that does so   *)
(* after the first step and before the second takes the new key at once.   *)
(***************************************************************************)
EXTENDS Naturals, FiniteSets

CONSTANTS
  Replica,      \* server processes, all with the same directory
  Verifier,     \* apps that check tokens with the JWKS
  Job,          \* generate-signing-key processes
  LastKid,      \* bound: ids 1 .. LastKid
  MaxAge,       \* max-age of the JWKS response, in ticks
  Lifetime,     \* lifetime of access and ID tokens, in ticks
  Deaths        \* bound: how often the command is stopped half way

ASSUME SigningConstants ==
  /\ LastKid \in Nat \ {0} /\ MaxAge \in Nat \ {0} /\ Lifetime \in Nat \ {0}
  /\ Deaths \in Nat

VARIABLES
  files,    \* [Kid -> what SIGNING_KEYS_DIR holds under <kid>.pem]
  job,      \* [Job -> where each run of the command stands]
  deaths,   \* runs of the command that were stopped
  replica,  \* [Replica -> process and settings]
  left,     \* [Kid -> time left of the youngest token the key signed]
  cache,    \* [Verifier -> the JWKS it holds and its age]
  stage,    \* where the rotation stands
  old,      \* the key that the rotation replaces
  todo,     \* the replicas to restart before the stage is over
  waited    \* ticks since the last of them

vars == <<files, job, deaths, replica, left, cache, stage, old, todo, waited>>

Kid  == 1 .. LastKid
None == 0

File == {"absent", "empty", "whole", "deleted"}

JobState ==
  [at : {"idle", "check", "name", "open", "write", "present", "created", "died"},
   kid : Kid \cup {None}, ifMissing : BOOLEAN]

\* pin: SIGNING_ACTIVE_KID, or None.
Process == [up : BOOLEAN, keys : SUBSET Kid, active : Kid \cup {None}, pin : Kid \cup {None}]

Stage == {"steady", "generate", "pin", "switch", "retire"}

TypeOK ==
  /\ files \in [Kid -> File]
  /\ job \in [Job -> JobState]
  /\ deaths \in 0 .. Deaths
  /\ replica \in [Replica -> Process]
  /\ \A r \in Replica : replica[r].up => replica[r].active \in replica[r].keys
  /\ left \in [Kid -> 0 .. Lifetime]
  /\ cache \in [Verifier -> [keys : SUBSET Kid, age : 0 .. MaxAge]]
  /\ stage \in Stage
  /\ old \in Kid \cup {None}
  /\ todo \subseteq Replica
  /\ waited \in 0 .. (MaxAge + Lifetime)

Init ==
  /\ files = [k \in Kid |-> "absent"]
  /\ job = [j \in Job |-> [at |-> "idle", kid |-> None, ifMissing |-> FALSE]]
  /\ deaths = 0
  /\ replica = [r \in Replica |-> [up |-> FALSE, keys |-> {}, active |-> None, pin |-> None]]
  /\ left = [k \in Kid |-> 0]
  /\ cache = [v \in Verifier |-> [keys |-> {}, age |-> MaxAge]]
  /\ stage = "steady"
  /\ old = None
  /\ todo = {}
  /\ waited = 0

\* What the directory lists: every name ending in .pem.
Listed == {k \in Kid : files[k] \in {"empty", "whole"}}
Whole  == {k \in Kid : files[k] = "whole"}

Newest(kids) == CHOOSE k \in kids : \A m \in kids : m <= k

operatorVars == <<stage, old, todo, waited>>

---------------------------------------------------------------------------
(* sharp-oauth generate-signing-key [--if-missing] *)

Move(j, at) == job' = [job EXCEPT ![j].at = at] /\ UNCHANGED deaths

\* Variant: the command never adds a second key.
RunJobAlwaysChecks(j, ifMissing) ==
  /\ job[j].at \in {"idle", "present", "created", "died"}
  /\ job' = [job EXCEPT ![j] = [at |-> "check", kid |-> None, ifMissing |-> ifMissing]]
  /\ UNCHANGED <<files, deaths, replica, left, cache>>

RunJob(j, ifMissing) ==
  /\ job[j].at \in {"idle", "present", "created", "died"}
  /\ job' = [job EXCEPT ![j] = [at |-> IF ifMissing THEN "check" ELSE "name",
                                kid |-> None, ifMissing |-> ifMissing]]
  /\ UNCHANGED <<files, deaths, replica, left, cache>>

\* The one-shot job of every start of the deployment.
ContainerStart(j) == RunJob(j, TRUE) /\ UNCHANGED operatorVars

\* has_pem_file asks for the name of a file, not for what is in it.
AlreadyPresent(j) ==
  /\ job[j].at = "check"
  /\ Listed # {}
  /\ Move(j, "present")
  /\ UNCHANGED <<files, replica, left, cache, operatorVars>>

Missing(j) ==
  /\ job[j].at = "check"
  /\ Listed = {}
  /\ Move(j, "name")
  /\ UNCHANGED <<files, replica, left, cache, operatorVars>>

\* An id that sorts after every file there ever was.
NewerThanFiles(k) == \A m \in Kid : files[m] # "absent" => m < k

\* new_kid, then the generation of the key.  Of runs at the same time, either may
\* get the greater name.  Bound: LastKid; ids are left free only for those runs.
Name(j) ==
  /\ job[j].at = "name"
  /\ \E k \in Kid :
       /\ NewerThanFiles(k)
       /\ Cardinality({m \in Kid : NewerThanFiles(m) /\ m < k}) < Cardinality(Job)
       /\ \A i \in Job : job[i].kid # k
       /\ job' = [job EXCEPT ![j].at = "open", ![j].kid = k]
  /\ UNCHANGED <<files, deaths, replica, left, cache, operatorVars>>

\* create_new, mode 0600.
Open(j) ==
  /\ job[j].at = "open"
  /\ files' = [files EXCEPT ![job[j].kid] = "empty"]
  /\ Move(j, "write")
  /\ UNCHANGED <<replica, left, cache, operatorVars>>

\* Variant: the file is created and its contents are forgotten.
WriteNothing(j) ==
  /\ job[j].at = "write"
  /\ Move(j, "created")
  /\ UNCHANGED <<files, replica, left, cache, operatorVars>>

Write(j) ==
  /\ job[j].at = "write"
  /\ files' = [files EXCEPT ![job[j].kid] = "whole"]
  /\ Move(j, "created")
  /\ UNCHANGED <<replica, left, cache, operatorVars>>

\* The process or the machine stops, or the disk is full.
Die(j) ==
  /\ deaths < Deaths
  /\ job[j].at \in {"check", "name", "open", "write"}
  /\ job' = [job EXCEPT ![j].at = "died"]
  /\ deaths' = deaths + 1
  /\ UNCHANGED <<files, replica, left, cache, operatorVars>>

---------------------------------------------------------------------------
(* The server *)

\* Variant: a pin is accepted only when it names the newest key.
CanLoadNewestOnly(pin) ==
  Listed # {} /\ Listed = Whole /\ (pin # None => pin = Newest(Listed))

\* load_from_dir refuses to start on a file that is not a key, on no key at
\* all, and on a pin that names none.
CanLoad(pin) == Listed # {} /\ Listed = Whole /\ (pin # None => pin \in Listed)

Load(r) ==
  LET pin == replica[r].pin IN
  /\ ~replica[r].up
  /\ CanLoad(pin)
  /\ replica' = [replica EXCEPT ![r] =
       [up |-> TRUE, keys |-> Listed, pin |-> pin,
        active |-> IF pin # None THEN pin ELSE Newest(Listed)]]
  /\ UNCHANGED <<files, job, deaths, left, cache, operatorVars>>

Stopped(pin) == [up |-> FALSE, keys |-> {}, active |-> None, pin |-> pin]

\* A crash or a stop; the settings stay with the container.
Stop(r) ==
  /\ replica[r].up
  /\ replica' = [replica EXCEPT ![r] = Stopped(@.pin)]
  /\ UNCHANGED <<files, job, deaths, left, cache, operatorVars>>

\* sign: the youngest token stands for the others of its key.
Sign(r) ==
  /\ replica[r].up
  /\ left' = [left EXCEPT ![replica[r].active] = Lifetime]
  /\ UNCHANGED <<files, job, deaths, replica, cache, operatorVars>>

\* Variant: the JWKS lists the active key only.
FetchActiveOnly(v) ==
  /\ \E r \in Replica :
       /\ replica[r].up
       /\ cache' = [cache EXCEPT ![v] = [keys |-> {replica[r].active}, age |-> 0]]
  /\ UNCHANGED <<files, job, deaths, replica, left, operatorVars>>

\* GET /.well-known/jwks.json at any replica, when the copy is too old or before.
Fetch(v) ==
  /\ \E r \in Replica :
       /\ replica[r].up
       /\ cache' = [cache EXCEPT ![v] = [keys |-> replica[r].keys, age |-> 0]]
  /\ UNCHANGED <<files, job, deaths, replica, left, operatorVars>>

Tick ==
  /\ left' = [k \in Kid |-> IF left[k] > 0 THEN left[k] - 1 ELSE 0]
  /\ cache' = [v \in Verifier |->
                 IF cache[v].age < MaxAge THEN [cache[v] EXCEPT !.age = @ + 1] ELSE cache[v]]
  /\ waited' = IF todo = {} /\ waited < MaxAge + Lifetime THEN waited + 1 ELSE waited
  /\ UNCHANGED <<files, job, deaths, replica, stage, old, todo>>

---------------------------------------------------------------------------
(* The rotation procedure, docs/security.md "Key rotation procedure" *)

\* The next stage begins with every replica of restart still to be restarted.
Enter(next, restart) == stage' = next /\ todo' = restart /\ waited' = 0

serverVars == <<job, deaths, replica, left, cache>>

JobsAtRest == \A j \in Job : job[j].at \in {"idle", "present", "created", "died"}

\* Bound: only with an id left for the new key and for every run that may be stopped.
Begin ==
  /\ Cardinality({k \in Kid : NewerThanFiles(k)}) > Deaths - deaths
  /\ stage = "steady"
  /\ JobsAtRest /\ Whole # {} /\ Listed = Whole
  /\ old' = Newest(Whole)
  /\ Enter("generate", {})
  /\ UNCHANGED <<files, serverVars>>

\* The settings of a replica that the operator restarts in a stage.
Pin == IF stage = "pin" THEN old ELSE None

\* The operator restarts one replica; Load brings it back.
Restart(r) ==
  /\ r \in todo
  /\ replica' = [replica EXCEPT ![r] = Stopped(Pin)]
  /\ todo' = todo \ {r}
  /\ waited' = 0
  /\ UNCHANGED <<files, job, deaths, left, cache, stage, old>>

\* 1. cargo run -- generate-signing-key, again when it failed.
Generate(j) ==
  /\ stage = "generate"
  /\ Newest(Whole) = old /\ Listed = Whole
  /\ RunJob(j, FALSE)
  /\ UNCHANGED operatorVars

\* What a failed run left is removed.
Discard(k) ==
  /\ JobsAtRest /\ files[k] = "empty"
  /\ files' = [files EXCEPT ![k] = "deleted"]
  /\ UNCHANGED <<serverVars, operatorVars>>

\* 2. SIGNING_ACTIVE_KID is the old key from now on.
Generated ==
  /\ stage = "generate"
  /\ Newest(Whole) # old
  /\ Enter("pin", Replica)
  /\ UNCHANGED <<files, serverVars, old>>

\* 3. After JWKS caches have refreshed, SIGNING_ACTIVE_KID is removed.
Published ==
  /\ stage = "pin" /\ todo = {} /\ waited >= MaxAge
  /\ Enter("switch", Replica)
  /\ UNCHANGED <<files, serverVars, old>>

\* 4. After the lifetime of a token more, the old key file is deleted.
Retire ==
  /\ stage = "switch" /\ todo = {} /\ waited >= Lifetime
  /\ files' = [files EXCEPT ![old] = "deleted"]
  /\ Enter("retire", Replica)
  /\ UNCHANGED <<serverVars, old>>

Retired ==
  /\ stage = "retire" /\ todo = {}
  /\ old' = None
  /\ Enter("steady", {})
  /\ UNCHANGED <<files, serverVars>>

JobStep(j) == AlreadyPresent(j) \/ Missing(j) \/ Name(j) \/ Open(j) \/ Write(j)

Operator ==
  \/ Begin \/ Generated \/ Published \/ Retire \/ Retired
  \/ \E r \in Replica : Restart(r)
  \/ \E j \in Job : Generate(j)
  \/ \E k \in Kid : Discard(k)

Next ==
  \/ \E j \in Job : ContainerStart(j) \/ JobStep(j) \/ Die(j)
  \/ \E r \in Replica : Load(r) \/ Stop(r) \/ Sign(r)
  \/ \E v \in Verifier : Fetch(v)
  \/ Tick
  \/ Operator

Spec == Init /\ [][Next]_vars

\* The command runs on, an operator goes on with a rotation once begun, a
\* stopped replica is restarted (compose.yaml, restart: unless-stopped) and
\* time passes.  Strong for Generate and Discard: container starts may keep
\* taking the one run of the command that the instance has.  Nothing need crash,
\* sign or fetch.
FairSpec ==
  /\ Spec
  /\ \A j \in Job :
       /\ WF_vars(JobStep(j)) /\ WF_vars(Whole = {} /\ ContainerStart(j))
       /\ SF_vars(Generate(j))
  /\ \A r \in Replica : WF_vars(Load(r)) /\ WF_vars(Restart(r))
  /\ WF_vars(Tick) /\ WF_vars(Generated) /\ WF_vars(Published)
  /\ WF_vars(Retire) /\ WF_vars(Retired)
  /\ \A k \in Kid : SF_vars(Discard(k))

---------------------------------------------------------------------------
(* Properties *)

\* Whoever sees a token of this key has the key: every replica that serves, and
\* every verifier whose JWKS is fresh.
Verifies(k) ==
  /\ \A r \in Replica : replica[r].up => k \in replica[r].keys
  /\ \A v \in Verifier : cache[v].age < MaxAge => k \in cache[v].keys

\* "Key rotation without breaking tokens" (jwt_manager.rs:24): a token verifies
\* until it expires, wherever it is shown, also while replicas crash and come back
\* in the middle of a rotation.
TokensVerifyUntilTheyExpire == \A k \in Kid : left[k] > 0 => Verifies(k)

\* What does hold of the procedure of docs/security.md:156-161: the only good tokens
\* that may not verify are those that a replica signs with the new key because it came
\* back before it was given the pin, and only until the pin is taken away.  No crash
\* and no step breaks a token of the old key, or of the new one after that.
OnlyEarlyTokensFail ==
  \A k \in Kid : left[k] > 0 => Verifies(k) \/ (stage \in {"generate", "pin"} /\ k # old)

\* While the directory holds keys and nothing else, no replica would be refused
\* a restart: what its setting pins is there, before, during and after a rotation.
RestartsAreNotRefused ==
  Whole # {} /\ Listed = Whole => \A r \in Replica : CanLoad(replica[r].pin)

\* A stopped replica serves again, also when the command that writes the first
\* key is stopped half way, once the file it left is removed.
ReplicasComeBack == \A r \in Replica : ~replica[r].up ~> replica[r].up

\* A rotation that was begun is finished, with one key left.
RotationsEnd == stage # "steady" ~> stage = "steady" /\ Cardinality(Whole) = 1

=============================================================================
