------------------------- MODULE SigningKeysProofs -------------------------
(***************************************************************************)
(* What a key rotation breaks: tokens that a replica signs with the new    *)
(* key before it was given the pin, and nothing else - no other token and  *)
(* no restart.  For any number of replicas, verifiers, key ids and stops   *)
(* of the command, and for any lifetimes, as long as no two runs of the    *)
(* command overlap.                                                        *)
(*                                                                         *)
(* KeysInv says, stage by stage, which keys are Known, that every          *)
(* replica that serves and every fresh copy of the JWKS has all of them,   *)
(* and that a key has nothing left to verify when it stops being one.      *)
(***************************************************************************)
EXTENDS SigningKeys, TLAPS

\* Two starts at once would both find no key and write one each.
OneCommand == \E j : Job = {j}

\* The keys that everybody has: the new one is not among them until the pin goes.
Known == IF stage \in {"generate", "pin"} THEN {old} ELSE Whole

Rotating == stage \in {"generate", "pin", "switch"}

\* The old key, until it is retired, and at most one besides.
DirectoryHolds ==
  /\ (stage = "steady") = (old = None)
  /\ \A k, m \in Whole \ {old} : k = m
  /\ Rotating => old \in Whole /\ \A k \in Whole : old <= k
  /\ stage \in {"pin", "switch", "retire"} => Whole \ {old} # {}
  /\ stage = "retire" => old \notin Whole

\* A run of the command that will write a key writes the first one, or the
\* one that is to replace old, with an id greater than any there ever was.
CommandHolds(j) ==
  /\ job[j].at \in {"name", "open", "write"} =>
       \/ stage = "steady" /\ Whole = {}
       \/ stage = "generate" /\ Whole = {old}
  /\ job[j].at \in {"open", "write"} => job[j].kid \in Kid
  /\ job[j].at = "open" => NewerThanFiles(job[j].kid)
  /\ job[j].at = "write" =>
       /\ files[job[j].kid] = "empty"
       /\ \A m \in Kid : files[m] # "absent" => m <= job[j].kid

\* The pin that a replica has at this point of the rotation.
PinOf(r) ==
  IF \/ stage = "pin" /\ r \notin todo
     \/ stage = "switch" /\ r \in todo
  THEN old ELSE None

ReplicaHolds(r) ==
  /\ replica[r].pin = PinOf(r)
  /\ replica[r].up =>
       /\ replica[r].active \in Whole /\ Known \subseteq replica[r].keys
       /\ stage = "pin" /\ r \notin todo => Whole \subseteq replica[r].keys
       /\ stage = "switch" /\ r \notin todo => replica[r].active # old

\* A copy fetched after the last restart of "pin" has the new key.
CacheHolds(v) ==
  cache[v].age < MaxAge =>
    /\ Whole # {} /\ Known \subseteq cache[v].keys
    /\ stage = "pin" /\ todo = {} /\ cache[v].age < waited => Whole \subseteq cache[v].keys

TokensHold ==
  /\ \A k \in Kid : left[k] > 0 => k \in Whole
  /\ stage = "switch" /\ todo = {} =>
       left[old] = 0 \/ left[old] + waited <= Lifetime

KeysInv ==
  /\ TypeOK /\ DirectoryHolds /\ TokensHold
  /\ stage \in {"steady", "generate"} => todo = {}
  /\ \A j \in Job : CommandHolds(j)
  /\ \A r \in Replica : ReplicaHolds(r)
  /\ \A v \in Verifier : CacheHolds(v)

---------------------------------------------------------------------------
(* The newest key *)

LEMMA NewestIs ==
  ASSUME NEW S \in SUBSET Kid, NEW g \in S, \A m \in S : m <= g
  PROVE  Newest(S) = g
<1>1. ASSUME NEW k \in S, \A m \in S : m <= k PROVE k = g
  BY <1>1, SigningConstants DEF Kid
<1> QED BY <1>1 DEF Newest

\* The directory has a newest key, and it is the one that is not old.
LEMMA NewestOfWhole ==
  ASSUME TypeOK, DirectoryHolds, Whole # {}
  PROVE  /\ Newest(Whole) \in Whole
         /\ Newest(Whole) = old <=> Whole = {old}
         /\ \A k \in Whole \ {old} : k = Newest(Whole)
<1>1. Whole \in SUBSET Kid /\ \A k \in Whole : k \in Nat /\ k # None
  BY SigningConstants DEF Whole, Kid, None
<1>2. CASE Whole = {old}
  BY <1>1, <1>2, NewestIs
<1>3. CASE Whole # {old}
  <2>1. PICK k \in Whole : k # old
    BY <1>3
  <2>2. old \in Whole => old <= k
    BY <1>1, <2>1 DEF DirectoryHolds, TypeOK, Stage, Rotating
  <2>3. \A m \in Whole : m <= k
    BY <1>1, <2>1, <2>2 DEF DirectoryHolds
  <2>4. Newest(Whole) = k
    BY <1>1, <2>1, <2>3, NewestIs
  <2> QED BY <2>1, <2>4 DEF DirectoryHolds
<1> QED BY <1>2, <1>3

---------------------------------------------------------------------------
(* The command *)

\* Steps of the command that leave the keys of the directory alone.
LEMMA JobStepsKeep ==
  ASSUME KeysInv, OneCommand, NEW j \in Job,
         \/ ContainerStart(j) \/ AlreadyPresent(j) \/ Missing(j) \/ Open(j) \/ Die(j) \/ Generate(j)
  PROVE  KeysInv'
<1>1. Job = {j} /\ job[j] \in JobState
  BY DEF OneCommand, KeysInv, TypeOK
<1>2. /\ UNCHANGED <<replica, left, cache, operatorVars>>
      /\ job' \in [Job -> JobState] /\ deaths' \in 0 .. Deaths /\ files' \in [Kid -> File]
      /\ Whole' = Whole
  <2>1. ASSUME NEW b \in BOOLEAN, RunJob(j, b), UNCHANGED operatorVars
        PROVE  /\ UNCHANGED <<replica, left, cache, operatorVars>>
               /\ job' \in [Job -> JobState] /\ deaths' \in 0 .. Deaths /\ files' \in [Kid -> File]
               /\ Whole' = Whole
    <3>1. [at |-> IF b THEN "check" ELSE "name", kid |-> None, ifMissing |-> b] \in JobState
      BY <2>1 DEF JobState
    <3> QED BY <2>1, <3>1 DEF RunJob, KeysInv, TypeOK, Whole
  <2>2. CASE AlreadyPresent(j) \/ Missing(j)
    BY <1>1, <2>2 DEF AlreadyPresent, Missing, Move, JobState, KeysInv, TypeOK, Whole
  <2>3. CASE Open(j)
    BY <1>1, <2>3 DEF Open, Move, JobState, KeysInv, TypeOK, Whole, File, CommandHolds,
       NewerThanFiles, Kid
  <2>4. CASE Die(j)
    BY <1>1, <2>4, SigningConstants DEF Die, JobState, KeysInv, TypeOK, Whole
  <2> QED BY <2>1, <2>2, <2>3, <2>4 DEF ContainerStart, Generate
<1>3. CommandHolds(j)'
  <2>1. CASE ContainerStart(j) \/ AlreadyPresent(j) \/ Die(j)
    <3>1. CASE ContainerStart(j)
      BY <3>1 DEF ContainerStart, RunJob, KeysInv, TypeOK, CommandHolds
    <3>2. CASE AlreadyPresent(j) \/ Die(j)
      <4>1. ASSUME NEW at, job' = [job EXCEPT ![j].at = at] PROVE job'[j].at = at
        BY <1>1, <4>1 DEF KeysInv, TypeOK, JobState
      <4>2. job'[j].at = "present" \/ job'[j].at = "died"
        BY <3>2, <4>1 DEF AlreadyPresent, Die, Move
      <4> QED BY <4>2 DEF CommandHolds
    <3> QED BY <2>1, <3>1, <3>2
  <2>2. CASE Missing(j)
    BY <1>1, <1>2, <2>2 DEF Missing, Move, CommandHolds, KeysInv, TypeOK, DirectoryHolds, Listed,
       Whole, Stage, Rotating, operatorVars
  <2>3. CASE Generate(j)
    BY <1>1, <1>2, <2>3, NewestOfWhole DEF Generate, RunJob, CommandHolds, KeysInv, TypeOK,
       DirectoryHolds, operatorVars, Rotating
  <2>4. CASE Open(j)
    <3>1. /\ job' = [job EXCEPT ![j].at = "write"] /\ job[j].at = "open"
          /\ files' = [files EXCEPT ![job[j].kid] = "empty"] /\ job[j].kid \in Kid
      BY <1>1, <2>4 DEF Open, Move, CommandHolds, KeysInv
    <3>2. \A m \in Kid : m <= m
      BY DEF Kid
    <3> QED BY <1>1, <1>2, <3>1, <3>2, SigningConstants
            DEF CommandHolds, KeysInv, TypeOK, NewerThanFiles, operatorVars, Kid
  <2> QED BY <2>1, <2>2, <2>3, <2>4
<1> QED BY <1>1, <1>2, <1>3
        DEF KeysInv, TypeOK, DirectoryHolds, TokensHold, ReplicaHolds, CacheHolds, PinOf, Known,
            Rotating, operatorVars

LEMMA NameKeeps ==
  ASSUME KeysInv, OneCommand, NEW j \in Job, Name(j)
  PROVE  KeysInv'
<1>1. Job = {j} /\ job[j] \in JobState /\ job[j].at = "name"
  BY DEF OneCommand, KeysInv, TypeOK, Name
<1>2. PICK k \in Kid : /\ NewerThanFiles(k)
                       /\ job' = [job EXCEPT ![j].at = "open", ![j].kid = k]
  BY DEF Name
<1>3. UNCHANGED <<files, deaths, replica, left, cache, stage, old, todo, waited>>
  BY DEF Name, operatorVars
<1>4. job' \in [Job -> JobState] /\ job'[j].at = "open" /\ job'[j].kid = k
  BY <1>1, <1>2 DEF KeysInv, TypeOK, JobState
<1>5. CommandHolds(j)'
  BY <1>1, <1>2, <1>3, <1>4 DEF CommandHolds, KeysInv, NewerThanFiles, Whole
<1>6. Whole' = Whole /\ Known' = Known
  BY <1>3 DEF Whole, Known
<1> QED BY <1>1, <1>3, <1>4, <1>5, <1>6
        DEF KeysInv, TypeOK, DirectoryHolds, TokensHold, ReplicaHolds, CacheHolds, PinOf, Rotating

\* The key that the command writes is the newest; it is the first one, which
\* nobody can have loaded, or it waits to be loaded.
LEMMA WriteKeeps ==
  ASSUME KeysInv, OneCommand, NEW j \in Job, Write(j)
  PROVE  KeysInv'
<1> DEFINE k == job[j].kid
<1>1. /\ Job = {j} /\ job[j] \in JobState /\ k \in Kid /\ job[j].at = "write"
      /\ files[k] = "empty" /\ \A m \in Kid : files[m] # "absent" => m <= k
      /\ \/ stage = "steady" /\ Whole = {}
         \/ stage = "generate" /\ Whole = {old}
  BY DEF OneCommand, KeysInv, TypeOK, CommandHolds, Write
<1>2. /\ files' = [files EXCEPT ![k] = "whole"] /\ job' = [job EXCEPT ![j].at = "created"]
      /\ UNCHANGED <<deaths, replica, left, cache, stage, old, todo, waited>>
  BY DEF Write, Move, operatorVars
<1>3. Whole' = Whole \cup {k} /\ k \notin Whole
  BY <1>1, <1>2 DEF Whole, KeysInv, TypeOK
<1>4. TypeOK'
  BY <1>1, <1>2 DEF KeysInv, TypeOK, JobState, File
<1>5. CommandHolds(j)'
  BY <1>1, <1>2 DEF CommandHolds, KeysInv, TypeOK
<1>6. CASE stage = "steady" /\ Whole = {}
  <2>1. /\ \A r \in Replica : ~replica[r].up
        /\ \A v \in Verifier : ~(cache[v].age < MaxAge)
        /\ \A m \in Kid : ~(left[m] > 0)
    BY <1>6 DEF KeysInv, ReplicaHolds, CacheHolds, TokensHold
  <2>2. DirectoryHolds'
    BY <1>1, <1>2, <1>3, <1>6 DEF DirectoryHolds, KeysInv, Rotating
  <2> QED BY <1>1, <1>2, <1>4, <1>5, <1>6, <2>1, <2>2
          DEF KeysInv, ReplicaHolds, CacheHolds, TokensHold, PinOf
<1>7. CASE stage = "generate" /\ Whole = {old}
  <2>1. Known' = Known /\ Known = {old}
    BY <1>2, <1>7 DEF Known
  <2>2. files[old] = "whole" /\ old \in Kid
    BY <1>7 DEF Whole
  <2>3. old <= k /\ old <= old
    BY <1>1, <2>2 DEF Kid
  <2>4. DirectoryHolds'
    BY <1>1, <1>2, <1>3, <1>7, <2>3 DEF DirectoryHolds, KeysInv, Rotating
  <2> QED BY <1>1, <1>2, <1>3, <1>4, <1>5, <1>7, <2>1, <2>4
          DEF KeysInv, ReplicaHolds, CacheHolds, TokensHold, PinOf
<1> QED BY <1>1, <1>6, <1>7

---------------------------------------------------------------------------
(* The server and its clients *)

LEMMA LoadKeeps ==
  ASSUME KeysInv, NEW r \in Replica, Load(r)
  PROVE  KeysInv'
<1> DEFINE pin == replica[r].pin
           active == IF pin # None THEN pin ELSE Newest(Whole)
<1>1. /\ Listed = Whole /\ Whole # {} /\ pin = PinOf(r)
      /\ replica' = [replica EXCEPT ![r] = [up |-> TRUE, keys |-> Whole, pin |-> pin,
                                            active |-> active]]
      /\ UNCHANGED <<files, job, deaths, left, cache, stage, old, todo, waited>>
  BY DEF Load, CanLoad, KeysInv, ReplicaHolds, operatorVars
<1>2. Newest(Whole) \in Whole /\ (Newest(Whole) = old <=> Whole = {old})
  BY <1>1, NewestOfWhole DEF KeysInv
<1>3. active \in Whole /\ Known \subseteq Whole /\ Known' = Known /\ Whole' = Whole
  BY <1>1, <1>2 DEF KeysInv, DirectoryHolds, TypeOK, Stage, Known, PinOf, Whole, Rotating
<1>4. stage = "switch" /\ r \notin todo => active # old
  BY <1>1, <1>2 DEF KeysInv, DirectoryHolds, PinOf
<1>5. ReplicaHolds(r)'
  BY <1>1, <1>3, <1>4 DEF ReplicaHolds, PinOf, KeysInv, TypeOK, Process
<1>6. replica' \in [Replica -> Process] /\ active \in Whole
  BY <1>1, <1>3 DEF KeysInv, TypeOK, Process, Whole
<1> QED BY <1>1, <1>3, <1>5, <1>6
        DEF KeysInv, TypeOK, DirectoryHolds, CommandHolds, NewerThanFiles, ReplicaHolds, CacheHolds,
            TokensHold, PinOf, Rotating

LEMMA ServerKeeps ==
  ASSUME KeysInv, NEW r \in Replica, Stop(r) \/ Sign(r)
  PROVE  KeysInv'
<1>1. /\ UNCHANGED <<files, job, deaths, cache, stage, old, todo, waited>>
      /\ Whole' = Whole /\ Known' = Known
  BY DEF Stop, Sign, operatorVars, Whole, Known
<1>2. CASE Stop(r)
  BY <1>1, <1>2 DEF Stop, Stopped, KeysInv, TypeOK, Process, DirectoryHolds, CommandHolds,
     NewerThanFiles, ReplicaHolds, CacheHolds, TokensHold, PinOf, Rotating
<1>3. CASE Sign(r)
  <2>1. /\ replica' = replica /\ left' = [left EXCEPT ![replica[r].active] = Lifetime]
        /\ replica[r].active \in Whole /\ replica[r].active \in Kid
        /\ stage = "switch" /\ todo = {} => replica[r].active # old
    BY <1>3 DEF Sign, KeysInv, ReplicaHolds, TypeOK, Process
  <2>2. TokensHold' /\ TypeOK'
    BY <1>1, <2>1, SigningConstants DEF KeysInv, TypeOK, TokensHold, Kid
  <2> QED BY <1>1, <2>1, <2>2 DEF KeysInv, DirectoryHolds, CommandHolds,
     NewerThanFiles, ReplicaHolds, CacheHolds, PinOf, Rotating
<1> QED BY <1>2, <1>3

LEMMA FetchKeeps ==
  ASSUME KeysInv, NEW v \in Verifier, Fetch(v)
  PROVE  KeysInv'
<1>1. PICK r \in Replica : /\ replica[r].up
                           /\ cache' = [cache EXCEPT ![v] = [keys |-> replica[r].keys, age |-> 0]]
  BY DEF Fetch
<1>2. /\ UNCHANGED <<files, job, deaths, replica, left, stage, old, todo, waited>>
      /\ Whole' = Whole /\ Known' = Known
  BY DEF Fetch, operatorVars, Whole, Known
<1>3. Whole # {}
  BY <1>1 DEF KeysInv, ReplicaHolds
<1>4. TypeOK'
  BY <1>1, <1>2, SigningConstants DEF KeysInv, TypeOK, Process
<1>5. CacheHolds(v)'
  BY <1>1, <1>2, <1>3 DEF KeysInv, TypeOK, ReplicaHolds, CacheHolds
<1> QED BY <1>1, <1>2, <1>4, <1>5 DEF KeysInv, TypeOK, DirectoryHolds, CommandHolds,
     NewerThanFiles, ReplicaHolds, CacheHolds, TokensHold, PinOf, Rotating

LEMMA TickKeeps ==
  ASSUME KeysInv, Tick
  PROVE  KeysInv'
<1>1. /\ UNCHANGED <<files, job, deaths, replica, stage, old, todo>>
      /\ Whole' = Whole /\ Known' = Known
  BY DEF Tick, Whole, Known
<1>2. /\ left' = [k \in Kid |-> IF left[k] > 0 THEN left[k] - 1 ELSE 0]
      /\ \A k \in Kid : left[k] \in 0 .. Lifetime /\ left'[k] \in 0 .. Lifetime
  BY SigningConstants DEF Tick, KeysInv, TypeOK
<1>3. waited' = IF todo = {} /\ waited < MaxAge + Lifetime THEN waited + 1 ELSE waited
  BY DEF Tick
<1>4. waited \in 0 .. (MaxAge + Lifetime) /\ waited' \in 0 .. (MaxAge + Lifetime)
  BY <1>3, SigningConstants DEF KeysInv, TypeOK
<1>5. \A v \in Verifier : /\ cache'[v].keys = cache[v].keys
                          /\ cache[v].age \in 0 .. MaxAge /\ cache'[v].age \in 0 .. MaxAge
                          /\ cache'[v].age < MaxAge => cache'[v].age = cache[v].age + 1
  BY SigningConstants DEF Tick, KeysInv, TypeOK
<1>6. TypeOK'
  <2>1. cache' \in [Verifier -> [keys : SUBSET Kid, age : 0 .. MaxAge]]
    BY SigningConstants DEF Tick, KeysInv, TypeOK
  <2> QED BY <1>1, <1>2, <1>4, <2>1 DEF KeysInv, TypeOK
<1>7. TokensHold'
  <2>1. \A k \in Kid : left'[k] > 0 => k \in Whole
    BY <1>2 DEF KeysInv, TokensHold
  <2>2. ASSUME stage = "switch", todo = {}
        PROVE  left'[old] = 0 \/ left'[old] + waited' <= Lifetime
    <3>1. old \in Kid
      BY <2>2 DEF KeysInv, DirectoryHolds, Rotating, Whole
    <3> QED BY <1>2, <1>3, <1>4, <2>2, <3>1, SigningConstants DEF KeysInv, TokensHold
  <2> QED BY <1>1, <2>1, <2>2 DEF TokensHold
<1>8. ASSUME NEW v \in Verifier PROVE CacheHolds(v)'
  BY <1>1, <1>3, <1>4, <1>5, SigningConstants DEF KeysInv, CacheHolds
<1> QED BY <1>1, <1>6, <1>7, <1>8 DEF KeysInv, DirectoryHolds, CommandHolds,
     NewerThanFiles, ReplicaHolds, PinOf, Rotating

---------------------------------------------------------------------------
(* The operator *)

\* The settings given to a replica are those of the stage, and a copy of the
\* JWKS fetched from now on is younger than the last restart.
LEMMA RestartKeeps ==
  ASSUME KeysInv, NEW r \in Replica, Restart(r)
  PROVE  KeysInv'
<1>1. /\ r \in todo /\ todo' = todo \ {r} /\ waited' = 0
      /\ replica' = [replica EXCEPT ![r] = Stopped(Pin)]
      /\ UNCHANGED <<files, job, deaths, left, cache, stage, old>>
      /\ Whole' = Whole /\ Known' = Known
  BY DEF Restart, Whole, Known
<1>2. stage \in {"pin", "switch", "retire"}
  BY <1>1 DEF KeysInv, TypeOK, Stage
<1>3. Pin = PinOf(r)' /\ Pin \in Kid \cup {None}
  BY <1>1, <1>2 DEF Pin, PinOf, KeysInv, TypeOK
<1>4. replica' \in [Replica -> Process] /\ waited' \in 0 .. (MaxAge + Lifetime)
  BY <1>1, <1>3, SigningConstants DEF KeysInv, TypeOK, Process, Stopped
<1>5. TypeOK'
  BY <1>1, <1>4 DEF KeysInv, TypeOK, Stopped
<1>6. \A s \in Replica : ReplicaHolds(s)'
  BY <1>1, <1>3 DEF KeysInv, TypeOK, ReplicaHolds, PinOf, Stopped
<1>7. \A v \in Verifier : cache[v].age \in Nat /\ ~(cache[v].age < 0)
  BY SigningConstants DEF KeysInv, TypeOK
<1>8. \A k \in Kid : left[k] \in Nat /\ left[k] + 0 <= Lifetime
  BY SigningConstants DEF KeysInv, TypeOK
<1>9. stage = "switch" => old \in Kid
  BY DEF KeysInv, DirectoryHolds, Rotating, Whole
<1> QED BY <1>1, <1>2, <1>5, <1>6, <1>7, <1>8, <1>9
        DEF KeysInv, DirectoryHolds, CommandHolds, NewerThanFiles, CacheHolds, TokensHold, Rotating

LEMMA BeginKeeps ==
  ASSUME KeysInv, Begin
  PROVE  KeysInv'
<1>1. /\ stage = "steady" /\ old = None /\ old' = Newest(Whole) /\ Whole # {}
      /\ stage' = "generate" /\ todo' = {} /\ waited' = 0 /\ JobsAtRest
      /\ UNCHANGED <<files, job, deaths, replica, left, cache>> /\ Whole' = Whole
  BY DEF Begin, Enter, serverVars, Whole, KeysInv, DirectoryHolds
<1>2. Whole = {old'} /\ old' \in Kid
  BY <1>1, NewestOfWhole DEF KeysInv, Whole, Kid, None, DirectoryHolds
<1>3. Known' = Known /\ old' # None /\ old' <= old'
  BY <1>1, <1>2, SigningConstants DEF Known, Kid, None
<1>4. TypeOK'
  BY <1>1, <1>2, SigningConstants DEF KeysInv, TypeOK, Stage
<1>5. DirectoryHolds'
  BY <1>1, <1>2, <1>3 DEF DirectoryHolds, Rotating
<1>6. ASSUME NEW r \in Replica PROVE ReplicaHolds(r)'
  BY <1>1, <1>3 DEF KeysInv, ReplicaHolds, PinOf
<1> QED BY <1>1, <1>3, <1>4, <1>5, <1>6
        DEF KeysInv, CommandHolds, JobsAtRest, CacheHolds, TokensHold

LEMMA DiscardKeeps ==
  ASSUME KeysInv, NEW k \in Kid, Discard(k)
  PROVE  KeysInv'
<1>1. /\ JobsAtRest /\ files[k] = "empty" /\ files' = [files EXCEPT ![k] = "deleted"]
      /\ UNCHANGED <<job, deaths, replica, left, cache, stage, old, todo, waited>>
  BY DEF Discard, serverVars, operatorVars
<1>2. Whole' = Whole /\ Known' = Known
  BY <1>1 DEF KeysInv, TypeOK, Whole, Known
<1>3. TypeOK'
  BY <1>1 DEF KeysInv, TypeOK, File
<1>4. ASSUME NEW j \in Job PROVE CommandHolds(j)'
  BY <1>1 DEF CommandHolds, JobsAtRest
<1> QED BY <1>1, <1>2, <1>3, <1>4
        DEF KeysInv, DirectoryHolds, ReplicaHolds, CacheHolds, TokensHold, PinOf, Rotating

\* From one stage to the next while the files stay.
LEMMA StagesKeep ==
  ASSUME KeysInv, Generated \/ Published
  PROVE  KeysInv'
<1>1. /\ UNCHANGED <<files, job, deaths, replica, left, cache, old>>
      /\ waited' = 0 /\ todo' = Replica /\ Whole' = Whole /\ 0 \in 0 .. (MaxAge + Lifetime)
  BY SigningConstants DEF Generated, Published, Enter, serverVars, Whole
<1>2. ASSUME NEW v \in Verifier PROVE cache[v].age \in Nat /\ ~(cache[v].age < 0)
  BY SigningConstants DEF KeysInv, TypeOK
<1>3. \A k \in Kid : left[k] \in Nat /\ left[k] + 0 <= Lifetime
  BY SigningConstants DEF KeysInv, TypeOK
<1>4. stage \in {"generate", "pin"} /\ old \in Whole /\ old \in Kid
  BY DEF Generated, Published, KeysInv, DirectoryHolds, Rotating, Whole
<1>5. CASE Generated
  <2>1. stage = "generate" /\ stage' = "pin" /\ Known' = Known /\ Newest(Whole) # old
    BY <1>1, <1>5 DEF Generated, Enter, Known
  <2>2. Whole # {old}
    BY <1>4, <2>1, NewestOfWhole DEF KeysInv
  <2>3. DirectoryHolds' /\ TypeOK' /\ TokensHold'
    BY <1>1, <1>4, <2>1, <2>2
       DEF KeysInv, TypeOK, Stage, DirectoryHolds, TokensHold, Rotating
  <2>4. ASSUME NEW r \in Replica PROVE ReplicaHolds(r)'
    BY <1>1, <2>1 DEF KeysInv, ReplicaHolds, PinOf
  <2>5. ASSUME NEW v \in Verifier PROVE CacheHolds(v)'
    BY <1>1, <1>2, <2>1 DEF KeysInv, CacheHolds
  <2> QED BY <1>1, <2>1, <2>2, <2>3, <2>4, <2>5 DEF KeysInv, CommandHolds
<1>6. CASE Published
  <2>1. /\ stage = "pin" /\ stage' = "switch" /\ todo = {}
        /\ waited >= MaxAge /\ Known = {old} /\ Known' = Whole
    BY <1>1, <1>6 DEF Published, Enter, Known
  <2>2. DirectoryHolds' /\ TypeOK' /\ TokensHold'
    BY <1>1, <1>3, <1>4, <2>1 DEF KeysInv, TypeOK, Stage, DirectoryHolds, TokensHold, Rotating
  <2>3. ASSUME NEW r \in Replica PROVE ReplicaHolds(r)'
    BY <1>1, <1>4, <2>1 DEF KeysInv, ReplicaHolds, PinOf
  <2>4. ASSUME NEW v \in Verifier PROVE CacheHolds(v)'
    <3>1. cache[v].age < MaxAge => cache[v].age < waited
      BY <1>2, <2>1, SigningConstants DEF KeysInv, TypeOK
    <3> QED BY <1>1, <2>1, <3>1 DEF KeysInv, CacheHolds
  <2> QED BY <1>1, <2>1, <2>2, <2>3, <2>4 DEF KeysInv, CommandHolds
<1> QED BY <1>5, <1>6

\* The old key has nothing left to verify.
LEMMA RetireKeeps ==
  ASSUME KeysInv, Retire
  PROVE  KeysInv'
<1>1. /\ stage = "switch" /\ todo = {} /\ waited >= Lifetime
      /\ files' = [files EXCEPT ![old] = "deleted"]
      /\ stage' = "retire" /\ todo' = Replica /\ waited' = 0
      /\ UNCHANGED <<job, deaths, replica, left, cache, old>>
  BY DEF Retire, Enter, serverVars
<1>2. old \in Whole /\ old \in Kid /\ Whole \ {old} # {}
  BY <1>1 DEF KeysInv, DirectoryHolds, Rotating, Whole
<1>3. /\ Whole' = Whole \ {old} /\ Known' = Whole \ {old} /\ Known = Whole
  BY <1>1, <1>2 DEF KeysInv, TypeOK, Whole, Known
<1>4. left[old] = 0
  BY <1>1, <1>2, SigningConstants DEF KeysInv, TypeOK, TokensHold
<1>5. TypeOK'
  <2>1. files' \in [Kid -> File]
    BY <1>1 DEF KeysInv, TypeOK, File
  <2>2. waited' \in 0 .. (MaxAge + Lifetime)
    BY <1>1, SigningConstants
  <2> QED BY <1>1, <2>1, <2>2 DEF KeysInv, TypeOK, Stage
<1>6. DirectoryHolds' /\ TokensHold'
  BY <1>1, <1>2, <1>3, <1>4 DEF KeysInv, DirectoryHolds, TokensHold, Rotating
<1>7. ASSUME NEW r \in Replica PROVE ReplicaHolds(r)'
  BY <1>1, <1>3 DEF KeysInv, ReplicaHolds, PinOf
<1>8. ASSUME NEW j \in Job PROVE CommandHolds(j)'
  BY <1>1 DEF KeysInv, CommandHolds
<1> QED BY <1>1, <1>2, <1>3, <1>5, <1>6, <1>7, <1>8 DEF KeysInv, CacheHolds

LEMMA RetiredKeeps ==
  ASSUME KeysInv, Retired
  PROVE  KeysInv'
<1>1. /\ stage = "retire" /\ todo = {} /\ old' = None
      /\ stage' = "steady" /\ todo' = {} /\ waited' = 0 /\ old \notin Whole /\ old # None
      /\ UNCHANGED <<files, job, deaths, replica, left, cache>>
      /\ Whole' = Whole /\ Known' = Known /\ None \notin Whole
  BY SigningConstants
     DEF Retired, Enter, serverVars, Whole, Known, KeysInv, DirectoryHolds, Kid, None
<1>2. TypeOK'
  BY <1>1, SigningConstants DEF KeysInv, TypeOK, Stage
<1>3. DirectoryHolds'
  BY <1>1 DEF KeysInv, DirectoryHolds, Rotating
<1>4. ASSUME NEW j \in Job PROVE CommandHolds(j)'
  BY <1>1 DEF KeysInv, CommandHolds
<1> QED BY <1>1, <1>2, <1>3, <1>4 DEF KeysInv, ReplicaHolds, CacheHolds, TokensHold, PinOf

---------------------------------------------------------------------------
(* The theorems *)

LEMMA InitKeys == Init => KeysInv
<1> SUFFICES ASSUME Init PROVE KeysInv
  OBVIOUS
<1>1. TypeOK
  BY SigningConstants DEF Init, TypeOK, File, JobState, Process, Stage
<1>2. Whole = {}
  BY DEF Init, Whole
<1> QED BY <1>1, <1>2, SigningConstants
        DEF Init, KeysInv, DirectoryHolds, CommandHolds, ReplicaHolds, CacheHolds, TokensHold, PinOf,
            Rotating

LEMMA StutterKeeps == ASSUME KeysInv, UNCHANGED vars PROVE KeysInv'
<1>1. /\ UNCHANGED <<files, job, deaths, replica, left, cache, stage, old, todo, waited>>
      /\ Whole' = Whole /\ Known' = Known
  BY DEF vars, Whole, Known
<1>2. TypeOK' /\ DirectoryHolds' /\ TokensHold'
  BY <1>1 DEF KeysInv, TypeOK, DirectoryHolds, TokensHold, Rotating
<1> QED BY <1>1, <1>2 DEF KeysInv, CommandHolds, ReplicaHolds, CacheHolds, PinOf, NewerThanFiles

LEMMA StepKeys == OneCommand /\ KeysInv /\ [Next]_vars => KeysInv'
<1> SUFFICES ASSUME OneCommand, KeysInv, [Next]_vars PROVE KeysInv'
  OBVIOUS
<1>1. ASSUME NEW j \in Job, ContainerStart(j) \/ JobStep(j) \/ Die(j) \/ Generate(j) PROVE KeysInv'
  BY <1>1, JobStepsKeep, NameKeeps, WriteKeeps DEF JobStep
<1>2. ASSUME NEW r \in Replica, Load(r) \/ Stop(r) \/ Sign(r) \/ Restart(r) PROVE KeysInv'
  BY <1>2, LoadKeeps, ServerKeeps, RestartKeeps
<1>3. CASE Operator
  BY <1>1, <1>2, <1>3, BeginKeeps, StagesKeep, RetireKeeps, RetiredKeeps, DiscardKeeps DEF Operator
<1> QED BY <1>1, <1>2, <1>3, FetchKeeps, TickKeeps, StutterKeeps DEF Next

\* KeysInv holds in every reachable state, when runs of the command do not overlap.
THEOREM KeysInvariance == OneCommand => (Spec => []KeysInv)
<1> SUFFICES ASSUME OneCommand PROVE Spec => []KeysInv
  OBVIOUS
<1>1. KeysInv /\ [Next]_vars => KeysInv'
  BY StepKeys
<1> QED BY <1>1, InitKeys, PTL DEF Spec

\* The state of the directory, the replicas and the rotation is well formed.
THEOREM KeysTypeCorrect == OneCommand => (Spec => []TypeOK)
<1>1. KeysInv => TypeOK
  BY DEF KeysInv
<1> QED BY <1>1, KeysInvariance, PTL

\* Whatever crashes, restarts and fetches fall between the steps of the rotation of
\* docs/security.md:156-161, a token that does not verify everywhere was signed with the
\* new key before the pin that delays it was taken away.
THEOREM OnlyEarlyTokensBreak == OneCommand => (Spec => []OnlyEarlyTokensFail)
<1>1. ASSUME KeysInv, NEW k \in Kid, left[k] > 0, ~(stage \in {"generate", "pin"} /\ k # old)
      PROVE  Verifies(k)
  <2>1. k \in Known
    BY <1>1 DEF KeysInv, TokensHold, Known
  <2> QED BY <1>1, <2>1 DEF KeysInv, ReplicaHolds, CacheHolds, Verifies
<1>2. KeysInv => OnlyEarlyTokensFail
  BY <1>1 DEF OnlyEarlyTokensFail
<1> QED BY <1>2, KeysInvariance, PTL

\* A replica comes back without a pin while the new key is not published.
ComesBackEarly ==
  /\ stage \in {"generate", "pin"} /\ Newest(Whole) # old
  /\ \E r \in Replica : replica[r].pin = None /\ Load(r)

\* Until the pin is taken away, nothing but the old key is in use.
OldKeySigns ==
  stage \in {"generate", "pin"} =>
    /\ \A r \in Replica : replica[r].up => replica[r].active = old
    /\ \A k \in Kid : left[k] > 0 => k = old

LEMMA OldKeyGoesOnSigning ==
  ASSUME KeysInv, OldKeySigns, [Next]_vars, [~ComesBackEarly]_vars
  PROVE  OldKeySigns'
<1>1. CASE UNCHANGED <<replica, left, stage, old>>
  BY <1>1 DEF OldKeySigns
<1>2. ASSUME NEW j \in Job, ContainerStart(j) \/ JobStep(j) \/ Die(j) \/ Generate(j)
      PROVE  UNCHANGED <<replica, left, stage, old>>
  BY <1>2 DEF ContainerStart, RunJob, JobStep, AlreadyPresent, Missing, Name, Open, Write, Die,
     Generate, operatorVars
<1>3. ASSUME NEW r \in Replica, Load(r)
      PROVE  OldKeySigns'
  <2>1. /\ UNCHANGED <<left, stage, old>> /\ Listed = Whole
        /\ replica' = [replica EXCEPT ![r] =
             [up |-> TRUE, keys |-> Listed, pin |-> replica[r].pin,
              active |-> IF replica[r].pin # None THEN replica[r].pin ELSE Newest(Listed)]]
    BY <1>3 DEF Load, CanLoad, operatorVars
  <2>2. replica[r].pin \in {old, None}
    BY DEF KeysInv, ReplicaHolds, PinOf
  <2>3. ASSUME stage \in {"generate", "pin"} PROVE replica'[r].active = old
    <3>1. vars' # vars
      BY <1>3, <2>1 DEF vars, Load, KeysInv, TypeOK
    <3>2. CASE replica[r].pin = None
      BY <1>3, <2>1, <2>3, <3>1, <3>2 DEF ComesBackEarly, KeysInv, TypeOK
    <3> QED BY <2>1, <2>2, <3>2 DEF KeysInv, TypeOK
  <2> QED BY <2>1, <2>3 DEF OldKeySigns, KeysInv, TypeOK
<1>4. ASSUME NEW r \in Replica, Stop(r) \/ Restart(r) PROVE OldKeySigns'
  BY <1>4 DEF Stop, Restart, Stopped, OldKeySigns, KeysInv, TypeOK, operatorVars
<1>5. ASSUME NEW r \in Replica, Sign(r) PROVE OldKeySigns'
  <2>1. /\ UNCHANGED <<replica, stage, old>> /\ replica[r].up
        /\ left' = [left EXCEPT ![replica[r].active] = Lifetime]
    BY <1>5 DEF Sign, operatorVars
  <2> QED BY <2>1 DEF OldKeySigns, KeysInv, TypeOK
<1>6. CASE Tick
  <2>1. \A k \in Kid : left'[k] > 0 => left[k] > 0
    BY <1>6 DEF Tick
  <2> QED BY <1>6, <2>1 DEF Tick, OldKeySigns
<1>7. CASE Begin
  <2>1. stage = "steady" /\ old' = Newest(Whole) /\ Whole # {} /\ UNCHANGED <<replica, left>>
    BY <1>7 DEF Begin, serverVars
  <2>2. \A k \in Whole : k = old'
    BY <2>1, NewestOfWhole DEF KeysInv, DirectoryHolds, Whole, Kid, None
  <2> QED BY <2>1, <2>2 DEF OldKeySigns, KeysInv, ReplicaHolds, TokensHold
<1>8. CASE Generated
  BY <1>8 DEF Generated, Enter, serverVars, OldKeySigns
<1>9. CASE Published \/ Retire \/ Retired
  BY <1>9 DEF Published, Retire, Retired, Enter, OldKeySigns
<1>10. ASSUME \/ \E v \in Verifier : Fetch(v)
              \/ \E k \in Kid : Discard(k)
              \/ UNCHANGED vars
       PROVE  UNCHANGED <<replica, left, stage, old>>
  BY <1>10 DEF Fetch, Discard, serverVars, operatorVars, vars
<1> QED BY <1>1, <1>2, <1>3, <1>4, <1>5, <1>6, <1>7, <1>8, <1>9, <1>10 DEF Next, Operator

\* "Key rotation without breaking tokens" (jwt_manager.rs:24) is true of every
\* behaviour in which no replica comes back between the first step of a rotation and
\* its own restart with the pin: that is the only way to break a token.
THEOREM RotationBreaksNoToken ==
  OneCommand => (Spec /\ [][~ComesBackEarly]_vars => []TokensVerifyUntilTheyExpire)
<1> SUFFICES ASSUME OneCommand
             PROVE  Spec /\ [][~ComesBackEarly]_vars => []TokensVerifyUntilTheyExpire
  OBVIOUS
<1>1. Init => OldKeySigns
  BY DEF Init, OldKeySigns
<1>2. KeysInv /\ OldKeySigns /\ [Next]_vars /\ [~ComesBackEarly]_vars => OldKeySigns'
  BY OldKeyGoesOnSigning
<1>3. KeysInv /\ OldKeySigns => TokensVerifyUntilTheyExpire
  BY DEF KeysInv, TokensHold, ReplicaHolds, CacheHolds, Known, OldKeySigns, Verifies,
     TokensVerifyUntilTheyExpire
<1> QED BY <1>1, <1>2, <1>3, KeysInvariance, PTL DEF Spec

\* A replica that crashes in the middle of a rotation finds the key it is pinned to.
THEOREM RotationBreaksNoRestart == OneCommand => (Spec => []RestartsAreNotRefused)
<1>1. ASSUME KeysInv, Whole # {}, Listed = Whole, NEW r \in Replica PROVE CanLoad(replica[r].pin)
  BY <1>1 DEF KeysInv, ReplicaHolds, PinOf, CanLoad, DirectoryHolds, Rotating
<1>2. KeysInv => RestartsAreNotRefused
  BY <1>1 DEF RestartsAreNotRefused
<1> QED BY <1>2, KeysInvariance, PTL

=============================================================================
