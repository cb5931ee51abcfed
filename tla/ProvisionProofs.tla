-------------------------- MODULE ProvisionProofs --------------------------
(***************************************************************************)
(* Proofs about Provision: no certificate or key that was written to the   *)
(* end is lost, and a command that reports success leaves usable files.    *)
(***************************************************************************)
EXTENDS Provision, SequenceTheorems, TLAPS

-----------------------------------------------------------------------------
(* Types. *)

Contents ==
    [kind : {"absent", "torn", "cert", "key", "secret", "token", "text"},
     key : Nat, by : Nat, cn : {"", "ca", "server"} \cup Node, profiles : SUBSET Profile]

Steps == [do : {"put", "copy", "reject"}, path : Path, content : Contents, keep : BOOLEAN]

Ops == {"none", "caInit", "caIssueServer", "caIssueClient", "jwtInit", "jwtIssue",
        "setupServer", "setupClient"}

TypeOK ==
    /\ file \in [Path -> Contents]
    /\ aside \subseteq Path \X Contents
    /\ issued \subseteq Path \X Contents
    /\ keys \in Nat
    /\ cmd \in [op : Ops, arg : {NoArg} \cup [node : Node] \cup ServerSpecs,
                st : {"none", "running", "done", "failed"}, plan : Seq(Steps),
                at : Nat, phase : {"stat", "read", "open", "fill"}, read : Contents]

-----------------------------------------------------------------------------
(* What a plan leaves. *)

\* The files a command overwrites without a backup: secrets and tokens.
Overwritten == {SecretFile} \cup {Token(n) : n \in Node}

Credential(c) == c.kind \in {"cert", "key"}

\* The content c is what the command is to leave at path p; first is the
\* content of the first file of its plan, which names the numbers it uses.
Right(op, arg, first, p, c) ==
    /\ op = "caInit" =>
        /\ p = CACrt => c = Cert(first.key, first.key, "ca")
        /\ p = CAKey => c = Key(first.key)
    /\ op = "caIssueServer" =>
        /\ p = ServerCrt => c = Cert(first.key, first.by, "server")
        /\ p = ServerKey => c = Key(first.key)
    /\ op = "caIssueClient" =>
        /\ p = ClientCrt(arg.node) => c = Cert(first.key, first.by, arg.node)
        /\ p = ClientKey(arg.node) => c = Key(first.key)
    /\ op = "jwtInit" => (p = SecretFile => c.kind = "secret")
    /\ op = "jwtIssue" => (p = Token(arg.node) => c = JWT(first.by, arg.node, Profile))
    /\ op = "setupServer" =>
        /\ p = CACrt => c = Cert(first.key, first.key, "ca")
        /\ p = CAKey => c = Key(first.key)
        /\ p = ServerCrt => c = Cert(first.key + 1, first.key, "server")
        /\ p = ServerKey => c = Key(first.key + 1)
        /\ p = SecretFile => c = Secret(first.key + 2 + Len(arg.nodes))
        /\ \A i \in DOMAIN arg.nodes :
            /\ p = ClientCrt(arg.nodes[i]) =>
                   c = Cert(first.key + 1 + i, first.key, arg.nodes[i])
            /\ p = ClientKey(arg.nodes[i]) => c = Key(first.key + 1 + i)
            /\ p = BundleCA(arg.nodes[i]) => c = Cert(first.key, first.key, "ca")
            /\ p = Token(arg.nodes[i]) =>
                   c = JWT(first.key + 2 + Len(arg.nodes), arg.nodes[i],
                           allowedProfilesForNode(arg.allowed, arg.nodes[i]))

\* The paths the success of a command is about.
Needed(op, arg) ==
    CASE op = "caInit"        -> {CACrt, CAKey}
      [] op = "caIssueServer" -> {ServerCrt, ServerKey}
      [] op = "caIssueClient" -> {ClientCrt(arg.node), ClientKey(arg.node)}
      [] op = "jwtInit"       -> {SecretFile}
      [] op = "jwtIssue"      -> {Token(arg.node)}
      [] op = "setupServer"   ->
            {CACrt, CAKey, ServerCrt, ServerKey}
              \cup {p \in Path : /\ arg.auth = "jwt" /\ p = SecretFile}
              \cup {p \in Path : /\ arg.issue /\ arg.auth = "mtls"
                                 /\ \E i \in DOMAIN arg.nodes :
                                        p \in {ClientCrt(arg.nodes[i]), ClientKey(arg.nodes[i]),
                                               BundleCA(arg.nodes[i])}}
              \cup {p \in Path : /\ arg.issue /\ arg.auth = "jwt"
                                 /\ \E i \in DOMAIN arg.nodes : p = Token(arg.nodes[i])}
      [] OTHER -> {}

StepFits(op, arg, first, s) ==
    /\ ~s.keep => s.path \in Overwritten
    /\ s.path \in Overwritten => s.do = "put" /\ ~Credential(s.content)
    /\ s.do = "put" => Right(op, arg, first, s.path, s.content)
    /\ s.do = "copy" => op = "setupServer" /\ \E n \in Node : s.path = BundleCA(n)
    /\ op \in {"caIssueServer", "caIssueClient"} => s.path # CACrt
    /\ op = "jwtIssue" => s.path # SecretFile

Complete(op, arg, plan) ==
    (\A j \in DOMAIN plan : plan[j].do # "reject")
        => \A p \in Needed(op, arg) : \E j \in DOMAIN plan : plan[j].path = p

PlanFits(op, arg, plan) ==
    /\ plan # <<>>
    /\ \A j \in DOMAIN plan : StepFits(op, arg, plan[1].content, plan[j])
    /\ Complete(op, arg, plan)
    /\ op = "setupServer" => plan[1].do = "put" /\ plan[1].path = CACrt

ArgFits(op, arg) ==
    /\ op \in {"caIssueClient", "jwtIssue"} => arg \in [node : Node]
    /\ op = "setupServer" => arg \in ServerSpecs

\* The files a command uses and leaves alone.
BaseFits(op, first) ==
    /\ op \in {"caIssueServer", "caIssueClient"} =>
           file[CACrt].kind = "cert" /\ file[CACrt].key = first.by
    /\ op = "jwtIssue" => file[SecretFile].kind = "secret" /\ file[SecretFile].key = first.by

First == cmd.plan[1].content

RightNow(p, c) == Right(cmd.op, cmd.arg, First, p, c)

\* Every file of the steps behind is right, but the one that is being replaced.
Progress ==
    \A j \in DOMAIN cmd.plan : j < cmd.at =>
        /\ cmd.plan[j].do # "reject"
        /\ \/ RightNow(cmd.plan[j].path, file[cmd.plan[j].path])
           \/ cmd.at <= Len(cmd.plan) /\ Step.path = cmd.plan[j].path

\* Where the command is in the step it is at.
PhaseFits ==
    /\ cmd.at \in 1..(Len(cmd.plan) + 1)
    /\ cmd.phase # "stat" =>
        /\ cmd.at <= Len(cmd.plan) /\ Step.do # "reject"
        /\ cmd.phase = "read" => Step.do = "copy"
        /\ Step.do = "copy" => RightNow(CACrt, cmd.read)
        /\ Step.keep /\ cmd.phase \in {"open", "fill"} => ~Credential(file[Step.path])

CommandInv ==
    cmd.st = "running" =>
        /\ ArgFits(cmd.op, cmd.arg)
        /\ PlanFits(cmd.op, cmd.arg, cmd.plan)
        /\ BaseFits(cmd.op, First)
        /\ Progress
        /\ PhaseFits

IssuedInv == \A i \in issued : Credential(i[2]) /\ i[1] \notin Overwritten

Inv == TypeOK /\ CommandInv /\ IssuedInv /\ NothingDestroyed /\ SuccessUsable


-----------------------------------------------------------------------------
(* Helpers. *)

\* The contents the program writes are contents.
LEMMA ContentTypes ==
    /\ Absent \in Contents /\ Torn \in Contents /\ Text \in Contents
    /\ \A k \in Nat : Key(k) \in Contents /\ Secret(k) \in Contents
    /\ \A k, s \in Nat : \A cn \in {"ca", "server"} \cup Node : Cert(k, s, cn) \in Contents
    /\ \A s \in Nat : \A n \in Node : \A ps \in SUBSET Profile : JWT(s, n, ps) \in Contents
  BY DEF Contents, Absent, Torn, Text, Key, Secret, Cert, JWT, Content

\* The paths are paths.
LEMMA PathTypes ==
    /\ {CACrt, CAKey, ServerCrt, ServerKey, SecretFile, Profiles} \subseteq Path
    /\ \A s \in Side : Config(s) \in Path /\ EnvFile(s) \in Path /\ Unit(s) \in Path
    /\ \A n \in Node : /\ ClientCrt(n) \in Path /\ ClientKey(n) \in Path
                       /\ BundleCA(n) \in Path /\ Token(n) \in Path
  BY DEF Path

LEMMA NoCredentials ==
    ~Credential(Absent) /\ ~Credential(Torn) /\ \A k : ~Credential(Secret(k))
  BY DEF Credential, Absent, Torn, Secret, Content

\* The fields of the contents.
LEMMA Fields ==
    /\ \A k, s, cn : LET c == Cert(k, s, cn)
                     IN  c.kind = "cert" /\ c.key = k /\ c.by = s /\ c.cn = cn
    /\ \A k : Key(k).kind = "key" /\ Key(k).key = k
    /\ \A k : Secret(k).kind = "secret" /\ Secret(k).key = k
    /\ \A s, n, ps : LET c == JWT(s, n, ps)
                     IN  c.kind = "token" /\ c.by = s /\ c.cn = n /\ c.profiles = ps
  BY DEF Cert, Key, Secret, JWT, Content

LEMMA StepTypes ==
    /\ Reject \in Steps
    /\ \A p \in Path : Copy(p) \in Steps
    /\ \A p \in Path : \A c \in Contents : Put(p, c) \in Steps /\ Over(p, c) \in Steps
  BY ContentTypes, PathTypes DEF Steps, Reject, Copy, Put, Over

\* What copyFile reads from the right ca.crt is right for a bundle.
LEMMA CopyIsRight ==
    ASSUME NEW arg, NEW first, NEW n \in Node, NEW c,
           Right("setupServer", arg, first, CACrt, c)
    PROVE  Right("setupServer", arg, first, BundleCA(n), c)
  BY DEF Right, CACrt, CAKey, ServerCrt, ServerKey, SecretFile, ClientCrt, ClientKey,
         BundleCA, Token

\* A running command is at a step of its plan.
LEMMA StepType ==
    ASSUME TypeOK, CommandInv, cmd.st = "running", cmd.at <= Len(cmd.plan)
    PROVE  /\ cmd.at \in DOMAIN cmd.plan
           /\ Step \in Steps
           /\ StepFits(cmd.op, cmd.arg, First, Step)
           /\ Data \in Contents
  <1>1. cmd.plan \in Seq(Steps) /\ cmd.read \in Contents  BY DEF TypeOK
  <1>2. cmd.at \in 1..Len(cmd.plan)  BY <1>1 DEF CommandInv, PhaseFits
  <1>3. cmd.at \in DOMAIN cmd.plan /\ Step \in Steps  BY <1>1, <1>2 DEF Step
  <1>4. StepFits(cmd.op, cmd.arg, First, Step)
    BY <1>3 DEF CommandInv, PlanFits, First, Step
  <1>5. Data \in Contents  BY <1>1, <1>3 DEF Data, Steps
  <1> QED  BY <1>3, <1>4, <1>5

\* What a step writes is right for its path.
LEMMA DataIsRight ==
    ASSUME TypeOK, CommandInv, cmd.st = "running", cmd.at <= Len(cmd.plan),
           cmd.phase # "stat"
    PROVE  /\ RightNow(Step.path, Data)
           /\ Step.path \in Overwritten => ~Credential(Data)
  <1>1. /\ Step \in Steps /\ StepFits(cmd.op, cmd.arg, First, Step)
        /\ Step.do # "reject"
        /\ Step.do = "copy" => RightNow(CACrt, cmd.read)
    BY StepType DEF CommandInv, PhaseFits
  <1>2. CASE Step.do = "copy"
    <2>1. cmd.op = "setupServer"  BY <1>1, <1>2 DEF StepFits
    <2>2. PICK n \in Node : Step.path = BundleCA(n)  BY <1>1, <1>2 DEF StepFits
    <2>3. Right("setupServer", cmd.arg, First, CACrt, cmd.read)
      BY <1>1, <1>2, <2>1 DEF RightNow
    <2>4. Right("setupServer", cmd.arg, First, BundleCA(n), cmd.read)  BY <2>3, CopyIsRight
    <2>5. Step.path \notin Overwritten  BY <2>2 DEF Overwritten, BundleCA, Token, SecretFile
    <2> QED  BY <1>2, <2>1, <2>2, <2>4, <2>5 DEF RightNow, Data
  <1>3. CASE Step.do = "put"
    BY <1>1, <1>3 DEF StepFits, RightNow, Data
  <1> QED  BY <1>1, <1>2, <1>3 DEF Steps

-----------------------------------------------------------------------------
(* The steps of a command. *)

\* A step writes to its own path only: what the plan is and what the steps
\* behind left stays.
LEMMA FileStep ==
    ASSUME TypeOK, CommandInv, cmd.st = "running", cmd.at <= Len(cmd.plan),
           cmd'.op = cmd.op, cmd'.arg = cmd.arg, cmd'.plan = cmd.plan, cmd'.at = cmd.at,
           \A p \in Path : p # Step.path => file'[p] = file[p]
    PROVE  /\ ArgFits(cmd'.op, cmd'.arg)
           /\ PlanFits(cmd'.op, cmd'.arg, cmd'.plan)
           /\ BaseFits(cmd.op, First)'
           /\ Progress'
  <1> DEFINE s == Step
  <1>1. /\ cmd.at \in DOMAIN cmd.plan /\ s \in Steps
        /\ StepFits(cmd.op, cmd.arg, First, s)
    BY StepType
  <1>2. First' = First /\ Step' = s  BY DEF First, Step
  <1>3. ArgFits(cmd'.op, cmd'.arg) /\ PlanFits(cmd'.op, cmd'.arg, cmd'.plan)
    BY DEF CommandInv
  <1>4. BaseFits(cmd.op, First)'
    <2>1. BaseFits(cmd.op, First)  BY DEF CommandInv
    <2>2. cmd.op \in {"caIssueServer", "caIssueClient"} => file'[CACrt] = file[CACrt]
      BY <1>1, PathTypes DEF StepFits
    <2>3. cmd.op = "jwtIssue" => file'[SecretFile] = file[SecretFile]
      BY <1>1, PathTypes DEF StepFits
    <2> QED  BY <1>2, <2>1, <2>2, <2>3 DEF BaseFits
  <1>5. Progress'
    <2> SUFFICES ASSUME NEW j \in DOMAIN cmd.plan, j < cmd.at
                 PROVE  /\ cmd.plan[j].do # "reject"
                        /\ \/ Right(cmd.op, cmd.arg, First, cmd.plan[j].path,
                                    file'[cmd.plan[j].path])
                           \/ s.path = cmd.plan[j].path
      BY <1>2 DEF Progress, RightNow
    <2>1. cmd.plan[j] \in Steps  BY DEF TypeOK
    <2>2. cmd.plan[j].path \in Path  BY <2>1 DEF Steps
    <2>3. /\ cmd.plan[j].do # "reject"
          /\ \/ RightNow(cmd.plan[j].path, file[cmd.plan[j].path])
             \/ s.path = cmd.plan[j].path
      BY DEF CommandInv, Progress
    <2> QED  BY <2>2, <2>3 DEF RightNow
  <1> QED  BY <1>3, <1>4, <1>5

\* The end of a command, whatever its result.
LEMMA EndType ==
    ASSUME TypeOK, NEW st \in {"done", "failed"}, Finish(st),
           UNCHANGED <<file, aside, keys, issued>>
    PROVE  TypeOK' /\ cmd'.st = st /\ cmd'.op = cmd.op /\ cmd'.arg = cmd.arg
  <1>1. cmd' = [cmd EXCEPT !.st = st, !.plan = <<>>, !.at = 1, !.phase = "stat",
                           !.read = Absent]
    BY DEF Finish
  <1>2. <<>> \in Seq(Steps) /\ 1 \in Nat /\ Absent \in Contents  BY ContentTypes
  <1>3. /\ cmd' \in [op : Ops, arg : {NoArg} \cup [node : Node] \cup ServerSpecs,
                     st : {"none", "running", "done", "failed"}, plan : Seq(Steps),
                     at : Nat, phase : {"stat", "read", "open", "fill"}, read : Contents]
        /\ cmd'.st = st /\ cmd'.op = cmd.op /\ cmd'.arg = cmd.arg
    BY <1>1, <1>2 DEF TypeOK
  <1> QED  BY <1>3 DEF TypeOK

LEMMA ReadSourceKeeps ==
    ASSUME TypeOK, CommandInv, ReadSource
    PROVE  TypeOK' /\ CommandInv'
  <1> USE DEF ReadSource, Running
  <1>1. Step \in Steps /\ StepFits(cmd.op, cmd.arg, First, Step)  BY StepType
  <1>2. CASE Exists(CACrt)
    <2>1. cmd' = [cmd EXCEPT !.phase = "read", !.read = file[CACrt]]  BY <1>2
    <2>2. /\ cmd'.op = cmd.op /\ cmd'.arg = cmd.arg /\ cmd'.plan = cmd.plan
          /\ cmd'.at = cmd.at /\ cmd'.st = cmd.st
          /\ cmd'.phase = "read" /\ cmd'.read = file[CACrt]
      BY <2>1 DEF TypeOK
    <2>3. TypeOK'
      <3>1. file[CACrt] \in Contents  BY PathTypes DEF TypeOK
      <3> QED  BY <2>1, <3>1 DEF TypeOK
    <2>4. /\ ArgFits(cmd'.op, cmd'.arg) /\ PlanFits(cmd'.op, cmd'.arg, cmd'.plan)
          /\ BaseFits(cmd.op, First)' /\ Progress'
      BY <2>2, FileStep
    <2>5. RightNow(CACrt, file[CACrt])
      <3>1. PICK n \in Node : Step.path = BundleCA(n)  BY <1>1 DEF StepFits
      <3>2. cmd.plan[1].do = "put" /\ cmd.plan[1].path = CACrt /\ cmd.plan # <<>>
        BY <1>1 DEF CommandInv, PlanFits, StepFits
      <3>3. Len(cmd.plan) \in Nat /\ cmd.plan \in Seq(Steps) /\ cmd.at \in 1..Len(cmd.plan)
        BY DEF TypeOK, CommandInv, PhaseFits
      <3>4. 1 \in DOMAIN cmd.plan /\ 1 < cmd.at  BY <3>2, <3>3 DEF Step
      <3>5. Step.path # CACrt  BY <3>1 DEF BundleCA, CACrt
      <3> QED  BY <3>2, <3>4, <3>5 DEF CommandInv, Progress
    <2>6. RightNow(CACrt, cmd.read)'
      <3>1. First' = First  BY <2>2 DEF First
      <3> QED  BY <2>2, <2>5, <3>1 DEF RightNow
    <2>7. PhaseFits'
      <3>1. Step' = Step  BY <2>2 DEF Step
      <3> QED  BY <2>2, <2>6, <3>1 DEF PhaseFits, CommandInv
    <2> QED  BY <2>2, <2>3, <2>4, <2>7 DEF CommandInv
  <1>3. CASE ~Exists(CACrt)
    <2>1. TypeOK' /\ cmd'.st = "failed"  BY <1>3, EndType
    <2> QED  BY <2>1 DEF CommandInv
  <1> QED  BY <1>2, <1>3

\* backupIfExists takes the file of its path away and keeps it.
LEMMA BackupEffect ==
    ASSUME TypeOK, NEW p \in Path, BackupIfExists(p)
    PROVE  /\ file' \in [Path -> Contents] /\ aside' \subseteq Path \X Contents
           /\ file'[p] = Absent
           /\ \A q \in Path : q # p => file'[q] = file[q]
           /\ aside \subseteq aside'
           /\ file[p] # Absent => <<p, file[p]>> \in aside'
  <1>1. CASE Exists(p)
    <2>1. file' = [file EXCEPT ![p] = Absent] /\ aside' = aside \cup {<<p, file[p]>>}
      BY <1>1 DEF BackupIfExists
    <2>2. <<p, file[p]>> \in Path \X Contents  BY DEF TypeOK
    <2> QED  BY <2>1, <2>2, ContentTypes DEF TypeOK
  <1>2. CASE ~Exists(p)
    BY <1>2 DEF BackupIfExists, Exists, TypeOK
  <1> QED  BY <1>1, <1>2

LEMMA MoveAsideKeeps ==
    ASSUME TypeOK, CommandInv, IssuedInv, NothingDestroyed, MoveAside
    PROVE  TypeOK' /\ CommandInv' /\ NothingDestroyed'
  <1>1. cmd.st = "running" /\ cmd.at <= Len(cmd.plan)  BY DEF MoveAside, Running
  <1>2. /\ Step \in Steps /\ Step.path \in Path
        /\ StepFits(cmd.op, cmd.arg, First, Step)
    BY <1>1, StepType DEF Steps
  <1>3. cmd' = [cmd EXCEPT !.phase = "open"] /\ keys' = keys /\ issued' = issued
    BY DEF MoveAside
  <1>4. /\ cmd'.op = cmd.op /\ cmd'.arg = cmd.arg /\ cmd'.plan = cmd.plan
        /\ cmd'.at = cmd.at /\ cmd'.st = cmd.st
        /\ cmd'.phase = "open" /\ cmd'.read = cmd.read
    BY <1>3 DEF TypeOK
  <1>5. /\ file' \in [Path -> Contents] /\ aside' \subseteq Path \X Contents
        /\ \A q \in Path : q # Step.path => file'[q] = file[q]
        /\ aside \subseteq aside'
        /\ Step.keep => file'[Step.path] = Absent
        /\ Step.keep => \/ file[Step.path] = Absent
                        \/ <<Step.path, file[Step.path]>> \in aside'
        /\ ~Step.keep => file' = file
    <2>1. CASE Step.keep
      <3>1. BackupIfExists(Step.path)  BY <2>1 DEF MoveAside
      <3> QED  BY <1>2, <2>1, <3>1, BackupEffect
    <2>2. CASE ~Step.keep
      BY <2>2 DEF MoveAside, TypeOK
    <2> QED  BY <2>1, <2>2
  <1>6. TypeOK'
    BY <1>3, <1>5 DEF TypeOK
  <1>7. /\ ArgFits(cmd'.op, cmd'.arg) /\ PlanFits(cmd'.op, cmd'.arg, cmd'.plan)
        /\ BaseFits(cmd.op, First)' /\ Progress'
    BY <1>1, <1>4, <1>5, FileStep
  <1>8. PhaseFits'
    <2>1. Step' = Step /\ First' = First  BY <1>4 DEF Step, First
    <2>2. Step.do # "reject" /\ (Step.do = "copy" => RightNow(CACrt, cmd.read))
      BY <1>1 DEF MoveAside, Running, CommandInv, PhaseFits
    <2>3. (Step.do = "copy" => RightNow(CACrt, cmd.read))'
      BY <1>4, <2>1, <2>2 DEF RightNow
    <2>4. Step.keep => ~Credential(file'[Step.path])
      BY <1>5, NoCredentials
    <2>5. cmd.at \in 1..(Len(cmd.plan) + 1)  BY <1>1 DEF CommandInv, PhaseFits
    <2> QED  BY <1>1, <1>4, <2>1, <2>2, <2>3, <2>4, <2>5 DEF PhaseFits
  <1>9. NothingDestroyed'
    <2> SUFFICES ASSUME NEW i \in issued  PROVE file'[i[1]] = i[2] \/ i \in aside'
      BY <1>3 DEF NothingDestroyed
    <2>1. i[1] \in Path /\ i = <<i[1], i[2]>>  BY DEF TypeOK
    <2>2. file[i[1]] = i[2] \/ i \in aside  BY DEF NothingDestroyed
    <2>3. Credential(i[2])  BY DEF IssuedInv
    <2>4. i[2] # Absent  BY <2>3, NoCredentials
    <2> QED  BY <1>5, <2>1, <2>2, <2>4
  <1> QED  BY <1>4, <1>6, <1>7, <1>8, <1>9 DEF CommandInv

LEMMA OpenFileKeeps ==
    ASSUME TypeOK, CommandInv, IssuedInv, NothingDestroyed, OpenFile
    PROVE  TypeOK' /\ CommandInv' /\ NothingDestroyed'
  <1>1. cmd.st = "running" /\ cmd.at <= Len(cmd.plan) /\ cmd.phase = "open"
    BY DEF OpenFile, Running
  <1>2. /\ Step \in Steps /\ Step.path \in Path
        /\ StepFits(cmd.op, cmd.arg, First, Step)
    BY <1>1, StepType DEF Steps
  <1>3. cmd' = [cmd EXCEPT !.phase = "fill"] /\ aside' = aside /\ issued' = issued
    BY DEF OpenFile
  <1>4. /\ cmd'.op = cmd.op /\ cmd'.arg = cmd.arg /\ cmd'.plan = cmd.plan
        /\ cmd'.at = cmd.at /\ cmd'.st = cmd.st
        /\ cmd'.phase = "fill" /\ cmd'.read = cmd.read
    BY <1>3 DEF TypeOK
  <1>5. PICK c \in Contents : file' = [file EXCEPT ![Step.path] = c] /\ ~Credential(c)
    <2>1. keys + 1 \in Nat  BY DEF TypeOK
    <2> QED  BY <2>1, ContentTypes, NoCredentials DEF OpenFile
  <1>6. keys' \in Nat  BY DEF OpenFile, TypeOK
  <1>7. /\ file' \in [Path -> Contents] /\ file'[Step.path] = c
        /\ \A q \in Path : q # Step.path => file'[q] = file[q]
    BY <1>2, <1>5 DEF TypeOK
  <1>8. TypeOK'  BY <1>3, <1>6, <1>7 DEF TypeOK
  <1>9. /\ ArgFits(cmd'.op, cmd'.arg) /\ PlanFits(cmd'.op, cmd'.arg, cmd'.plan)
        /\ BaseFits(cmd.op, First)' /\ Progress'
    BY <1>1, <1>4, <1>7, FileStep
  <1>10. PhaseFits'
    <2>1. Step' = Step /\ First' = First  BY <1>4 DEF Step, First
    <2>2. Step.do # "reject" /\ (Step.do = "copy" => RightNow(CACrt, cmd.read))
      BY <1>1 DEF CommandInv, PhaseFits
    <2>3. (Step.do = "copy" => RightNow(CACrt, cmd.read))'
      BY <1>4, <2>1, <2>2 DEF RightNow
    <2>4. cmd.at \in 1..(Len(cmd.plan) + 1)  BY <1>1 DEF CommandInv, PhaseFits
    <2> QED  BY <1>1, <1>4, <1>5, <1>7, <2>1, <2>2, <2>3, <2>4 DEF PhaseFits
  <1>11. NothingDestroyed'
    <2> SUFFICES ASSUME NEW i \in issued  PROVE file'[i[1]] = i[2] \/ i \in aside
      BY <1>3 DEF NothingDestroyed
    <2>1. i[1] \in Path /\ i[1] \notin Overwritten /\ Credential(i[2])
      BY DEF TypeOK, IssuedInv
    <2>2. file[i[1]] = i[2] \/ i \in aside  BY DEF NothingDestroyed
    <2>3. Step.keep => ~Credential(file[Step.path])
      BY <1>1 DEF CommandInv, PhaseFits
    <2>4. i[1] = Step.path => Step.keep  BY <1>2, <2>1 DEF StepFits
    <2> QED  BY <1>7, <2>1, <2>2, <2>3, <2>4
  <1> QED  BY <1>4, <1>8, <1>9, <1>10, <1>11 DEF CommandInv

LEMMA FillFileKeeps ==
    ASSUME TypeOK, CommandInv, IssuedInv, NothingDestroyed, FillFile
    PROVE  TypeOK' /\ CommandInv' /\ IssuedInv' /\ NothingDestroyed'
  <1> DEFINE s == Step
             d == Data
  <1>1. cmd.st = "running" /\ cmd.at <= Len(cmd.plan) /\ cmd.phase = "fill"
    BY DEF FillFile, Running
  <1>2. /\ s \in Steps /\ s.path \in Path /\ d \in Contents
        /\ StepFits(cmd.op, cmd.arg, First, s)
    BY <1>1, StepType DEF Steps
  <1>3. cmd' = [cmd EXCEPT !.phase = "stat", !.at = @ + 1, !.read = Absent]
    BY DEF FillFile
  <1>4. /\ cmd'.op = cmd.op /\ cmd'.arg = cmd.arg /\ cmd'.plan = cmd.plan
        /\ cmd'.at = cmd.at + 1 /\ cmd'.st = cmd.st /\ cmd'.phase = "stat"
    BY <1>3 DEF TypeOK
  <1>5. /\ file' = [file EXCEPT ![s.path] = d] /\ aside' = aside /\ keys' = keys
        /\ issued' = IF Credential(d) THEN issued \cup {<<s.path, d>>} ELSE issued
    BY DEF FillFile, Credential
  <1>6. RightNow(s.path, d) /\ (s.path \in Overwritten => ~Credential(d)) /\ s.do # "reject"
    BY <1>1, DataIsRight DEF CommandInv, PhaseFits
  <1>7. s.keep => ~Credential(file[s.path])  BY <1>1 DEF CommandInv, PhaseFits
  <1> HIDE DEF s, d
  <1>8. /\ file' \in [Path -> Contents] /\ file'[s.path] = d
        /\ \A q \in Path : q # s.path => file'[q] = file[q]
    BY <1>2, <1>5 DEF TypeOK
  <1>9. TypeOK'
    <2>1. issued' \subseteq Path \X Contents  BY <1>2, <1>5 DEF TypeOK
    <2>2. cmd.at + 1 \in Nat  BY DEF TypeOK
    <2> QED  BY <1>3, <1>5, <1>8, <2>1, <2>2, ContentTypes DEF TypeOK
  <1>10. First' = First  BY <1>4 DEF First
  <1>11. ArgFits(cmd'.op, cmd'.arg) /\ PlanFits(cmd'.op, cmd'.arg, cmd'.plan)
    BY <1>1, <1>4 DEF CommandInv
  <1>12. BaseFits(cmd.op, First)'
    <2>1. BaseFits(cmd.op, First)  BY <1>1 DEF CommandInv
    <2>2. cmd.op \in {"caIssueServer", "caIssueClient"} => file'[CACrt] = file[CACrt]
      BY <1>2, <1>8, PathTypes DEF StepFits
    <2>3. cmd.op = "jwtIssue" => file'[SecretFile] = file[SecretFile]
      BY <1>2, <1>8, PathTypes DEF StepFits
    <2> QED  BY <1>4, <1>10, <2>1, <2>2, <2>3 DEF BaseFits
  <1>13. Progress'
    <2> SUFFICES ASSUME NEW j \in DOMAIN cmd.plan, j < cmd.at + 1
                 PROVE  /\ cmd.plan[j].do # "reject"
                        /\ RightNow(cmd.plan[j].path, file'[cmd.plan[j].path])
      BY <1>4, <1>10 DEF Progress, RightNow
    <2>1. cmd.plan \in Seq(Steps) /\ cmd.at \in Nat /\ j \in Nat  BY DEF TypeOK
    <2>2. cmd.plan[j].path \in Path
      <3>1. cmd.plan[j] \in Steps  BY <2>1
      <3> QED  BY <3>1 DEF Steps
    <2>3. CASE j = cmd.at
      BY <1>6, <1>8, <2>3 DEF Step, s
    <2>4. CASE j < cmd.at
      <3>1. /\ cmd.plan[j].do # "reject"
            /\ \/ RightNow(cmd.plan[j].path, file[cmd.plan[j].path])
               \/ s.path = cmd.plan[j].path
        BY <1>1, <2>4 DEF CommandInv, Progress, s
      <3> QED  BY <1>6, <1>8, <2>2, <3>1
    <2> QED  BY <2>1, <2>3, <2>4
  <1>14. PhaseFits'
    <2>1. cmd.at \in 1..(Len(cmd.plan) + 1) /\ Len(cmd.plan) \in Nat
      BY <1>1 DEF CommandInv, PhaseFits, TypeOK
    <2>2. cmd.at + 1 \in 1..(Len(cmd.plan) + 1)  BY <1>1, <2>1
    <2> QED  BY <1>4, <2>2 DEF PhaseFits
  <1>15. IssuedInv'
    BY <1>5, <1>6 DEF IssuedInv
  <1>16. NothingDestroyed'
    <2> SUFFICES ASSUME NEW i \in issued'  PROVE file'[i[1]] = i[2] \/ i \in aside
      BY <1>5 DEF NothingDestroyed
    <2>1. CASE i = <<s.path, d>>
      BY <1>8, <2>1
    <2>2. CASE i \in issued
      <3>1. i[1] \in Path /\ i[1] \notin Overwritten /\ Credential(i[2])
        BY <2>2 DEF TypeOK, IssuedInv
      <3>2. file[i[1]] = i[2] \/ i \in aside  BY <2>2 DEF NothingDestroyed
      <3>3. i[1] = s.path => s.keep  BY <1>2, <3>1 DEF StepFits
      <3> QED  BY <1>7, <1>8, <3>1, <3>2, <3>3
    <2> QED  BY <1>5, <2>1, <2>2
  <1> QED  BY <1>4, <1>9, <1>11, <1>12, <1>13, <1>14, <1>15, <1>16 DEF CommandInv

-----------------------------------------------------------------------------
(* The end of a command. *)

AllRight(op, arg, first) ==
    \A p \in Needed(op, arg) : Right(op, arg, first, p, file[p])

\* When every step is behind, every file the command was to leave is right.
LEMMA AllIsRight ==
    ASSUME TypeOK, CommandInv, cmd.st = "running", cmd.at > Len(cmd.plan)
    PROVE  AllRight(cmd.op, cmd.arg, First)
  <1>1. cmd.plan \in Seq(Steps) /\ cmd.at \in Nat  BY DEF TypeOK
  <1>2. \A j \in DOMAIN cmd.plan :
           cmd.plan[j].do # "reject" /\ RightNow(cmd.plan[j].path, file[cmd.plan[j].path])
    <2> TAKE j \in DOMAIN cmd.plan
    <2>1. j < cmd.at /\ ~(cmd.at <= Len(cmd.plan))  BY <1>1
    <2> QED  BY <2>1 DEF CommandInv, Progress
  <1>3. \A p \in Needed(cmd.op, cmd.arg) : \E j \in DOMAIN cmd.plan : cmd.plan[j].path = p
    BY <1>2 DEF CommandInv, PlanFits, Complete
  <1> QED  BY <1>2, <1>3 DEF AllRight, RightNow

\* The files of "setup server".
LEMMA ServerSetupUsable ==
    ASSUME NEW op, op = "setupServer", NEW arg \in ServerSpecs, NEW first,
           AllRight(op, arg, first)
    PROVE  Usable(op, arg)
  <1> DEFINE Good(p) == Right(op, arg, first, p, file[p])
  <1> HIDE DEF Good
  <1>1. ServerSpec(arg)  BY ProvisionAssumption
  <1>2. Good(CACrt) /\ Good(CAKey) /\ Good(ServerCrt) /\ Good(ServerKey)
    BY DEF Needed, AllRight, Good
  <1>3. /\ file[CACrt] = Cert(first.key, first.key, "ca")
        /\ file[CAKey] = Key(first.key)
        /\ file[ServerCrt] = Cert(first.key + 1, first.key, "server")
        /\ file[ServerKey] = Key(first.key + 1)
    BY <1>2 DEF Right, Good
  <1>4. /\ LoadCA /\ MatchesParent /\ VerifyServerCert /\ ServerTLSConfig
    BY <1>3, Fields DEF LoadCA, MatchesParent, VerifyServerCert, ServerTLSConfig, LoadCAPool, Signed,
                LoadX509KeyPair
  <1>5. ASSUME arg.issue, NEW n \in Range(arg.nodes), arg.auth = "mtls"
        PROVE  Handshake(n)
    <2>1. PICK i \in DOMAIN arg.nodes : n = arg.nodes[i]  BY DEF Range
    <2>2. n \in Node  BY <1>1, <2>1 DEF ServerSpec
    <2>3. Good(ClientCrt(n)) /\ Good(ClientKey(n)) /\ Good(BundleCA(n))
      BY <1>5, <2>1, <2>2, PathTypes DEF Needed, AllRight, Good
    <2>4. /\ file[ClientCrt(n)] = Cert(first.key + 1 + i, first.key, n)
          /\ file[ClientKey(n)] = Key(first.key + 1 + i)
          /\ file[BundleCA(n)] = Cert(first.key, first.key, "ca")
      BY <2>1, <2>3 DEF Right, Good
    <2>5. ClientTLSConfig(n)
      BY <2>4, Fields DEF ClientTLSConfig, LoadCAPool, LoadX509KeyPair
    <2>6. Signed(ServerCrt, BundleCA(n)) /\ VerifyClientCert(n)
      BY <1>3, <2>4, Fields DEF Signed, VerifyClientCert, LoadCAPool
    <2> QED  BY <1>4, <2>5, <2>6 DEF Handshake
  <1>6. ASSUME arg.issue, NEW n \in Range(arg.nodes), arg.auth # "mtls"
        PROVE  /\ VerifyToken(n)
               /\ file[Token(n)].profiles = {p \in Profile : n \in arg.allowed[p]}
    <2>1. PICK i \in DOMAIN arg.nodes : n = arg.nodes[i]  BY DEF Range
    <2>2. n \in Node /\ arg.auth = "jwt"  BY <1>1, <1>6, <2>1 DEF ServerSpec
    <2>3. Good(Token(n)) /\ Good(SecretFile)
      BY <1>6, <2>1, <2>2, PathTypes DEF Needed, AllRight, Good
    <2>4. /\ file[SecretFile] = Secret(first.key + 2 + Len(arg.nodes))
          /\ file[Token(n)] = JWT(first.key + 2 + Len(arg.nodes), n,
                                  allowedProfilesForNode(arg.allowed, n))
      BY <2>1, <2>3 DEF Right, Good
    <2> QED  BY <2>4, Fields DEF VerifyToken, LoadSecretFile,
                         allowedProfilesForNode
  <1> QED  BY <1>4, <1>5, <1>6 DEF Usable

LEMMA SucceedKeeps ==
    ASSUME TypeOK, CommandInv, Succeed
    PROVE  TypeOK' /\ CommandInv' /\ SuccessUsable'
  <1>1. cmd.st = "running" /\ cmd.at > Len(cmd.plan) /\ UNCHANGED file  BY DEF Succeed
  <1>2. /\ TypeOK' /\ cmd'.st = "done" /\ cmd'.op = cmd.op /\ cmd'.arg = cmd.arg
    BY EndType DEF Succeed
  <1>3. AllRight(cmd.op, cmd.arg, First)  BY <1>1, AllIsRight
  <1>4. ArgFits(cmd.op, cmd.arg) /\ BaseFits(cmd.op, First)  BY <1>1 DEF CommandInv
  <1>5. Usable(cmd.op, cmd.arg)
    <2>1. CASE cmd.op = "caInit"
      <3>1. RightNow(CACrt, file[CACrt]) /\ RightNow(CAKey, file[CAKey])
        BY <1>3, <2>1 DEF Needed, AllRight, RightNow
      <3> QED  BY <2>1, <3>1, Fields DEF RightNow, Right, Usable, LoadCA, MatchesParent
    <2>2. CASE cmd.op = "caIssueServer"
      <3>1. RightNow(ServerCrt, file[ServerCrt]) /\ RightNow(ServerKey, file[ServerKey])
        BY <1>3, <2>2 DEF Needed, AllRight, RightNow
      <3>2. /\ file[ServerCrt] = Cert(First.key, First.by, "server")
            /\ file[ServerKey] = Key(First.key)
        BY <2>2, <3>1 DEF RightNow, Right
      <3> QED  BY <1>4, <2>2, <3>2, Fields DEF Usable, LoadX509KeyPair, BaseFits, VerifyServerCert, LoadCAPool, Signed
    <2>3. CASE cmd.op = "caIssueClient"
      <3> DEFINE n == cmd.arg.node
      <3>1. RightNow(ClientCrt(n), file[ClientCrt(n)]) /\ RightNow(ClientKey(n), file[ClientKey(n)])
        BY <1>3, <2>3 DEF Needed, AllRight, RightNow
      <3>2. /\ file[ClientCrt(n)] = Cert(First.key, First.by, n)
            /\ file[ClientKey(n)] = Key(First.key)
        BY <2>3, <3>1 DEF RightNow, Right
      <3> QED  BY <1>4, <2>3, <3>2, Fields DEF Usable, LoadX509KeyPair, BaseFits, VerifyClientCert, LoadCAPool, Signed
    <2>4. CASE cmd.op = "jwtInit"
      <3>1. RightNow(SecretFile, file[SecretFile])  BY <1>3, <2>4, Fields DEF Needed, AllRight, RightNow
      <3> QED  BY <2>4, <3>1, Fields DEF RightNow, Right, Usable, LoadSecretFile
    <2>5. CASE cmd.op = "jwtIssue"
      <3> DEFINE n == cmd.arg.node
      <3>1. RightNow(Token(n), file[Token(n)])  BY <1>3, <2>5 DEF Needed, AllRight, RightNow
      <3>2. file[Token(n)] = JWT(First.by, n, Profile)
        BY <2>5, <3>1 DEF RightNow, Right
      <3> QED  BY <1>4, <2>5, <3>2, Fields DEF Usable, LoadX509KeyPair, BaseFits, VerifyToken, LoadSecretFile
    <2>6. CASE cmd.op = "setupServer"
      <3>1. cmd.arg \in ServerSpecs  BY <1>4, <2>6 DEF ArgFits
      <3> QED  BY <1>3, <2>6, <3>1, ServerSetupUsable
    <2>7. CASE cmd.op \in {"none", "setupClient"}
      BY <2>7 DEF Usable
    <2> QED  BY <2>1, <2>2, <2>3, <2>4, <2>5, <2>6, <2>7 DEF TypeOK, Ops
  <1>6. Usable(cmd.op, cmd.arg)'
    BY <1>1, <1>2, <1>5 DEF Usable, LoadCA, MatchesParent, VerifyServerCert, VerifyClientCert,
         LoadCAPool, Signed, LoadX509KeyPair, LoadSecretFile, VerifyToken, Handshake,
         ServerTLSConfig, ClientTLSConfig
  <1> QED  BY <1>2, <1>6 DEF CommandInv, SuccessUsable

-----------------------------------------------------------------------------
(* The plans. *)

LEMMA RangeOfTwo ==
    ASSUME NEW S, NEW a \in S, NEW b \in S
    PROVE  <<a, b>> \in Seq(S) /\ Range(<<a, b>>) = {a, b}
  <1>1. <<a, b>> \in Seq(S) /\ DOMAIN <<a, b>> = 1..2  OBVIOUS
  <1>2. <<a, b>>[1] = a /\ <<a, b>>[2] = b  OBVIOUS
  <1> QED  BY <1>1, <1>2 DEF Range

LEMMA RangeOfOne ==
    ASSUME NEW S, NEW a \in S
    PROVE  <<a>> \in Seq(S) /\ Range(<<a>>) = {a}
  <1>1. <<a>> \in Seq(S) /\ DOMAIN <<a>> = {1} /\ <<a>>[1] = a  OBVIOUS
  <1> QED  BY <1>1 DEF Range

LEMMA RangeOfNone == \A S : <<>> \in Seq(S) /\ Range(<<>>) = {}
  BY DEF Range

\* The steps of "setup server" for the spec, with k numbers used before it.
SetupFits(spec, k, s) ==
    s \in Steps /\ StepFits("setupServer", spec, Cert(k + 1, k + 1, "ca"), s)

LEMMA PutFits ==
    ASSUME NEW spec, NEW k, NEW p \in Path, NEW c \in Contents,
           Right("setupServer", spec, Cert(k + 1, k + 1, "ca"), p, c),
           p \in Overwritten => ~Credential(c)
    PROVE  SetupFits(spec, k, Put(p, c))
  <1>1. Put(p, c) \in Steps  BY StepTypes
  <1>2. /\ Put(p, c).keep = TRUE /\ Put(p, c).do = "put"
        /\ Put(p, c).path = p /\ Put(p, c).content = c
    BY DEF Put
  <1> QED  BY <1>1, <1>2 DEF SetupFits, StepFits

LEMMA SetupStepsFit ==
    ASSUME NEW spec \in ServerSpecs, NEW k \in Nat
    PROVE  /\ SetupFits(spec, k, Reject)
           /\ SetupFits(spec, k, Put(CACrt, Cert(k + 1, k + 1, "ca")))
           /\ SetupFits(spec, k, Put(CAKey, Key(k + 1)))
           /\ SetupFits(spec, k, Put(ServerCrt, Cert(k + 2, k + 1, "server")))
           /\ SetupFits(spec, k, Put(ServerKey, Key(k + 2)))
           /\ SetupFits(spec, k, Over(SecretFile, Secret(k + 3 + Len(spec.nodes))))
           /\ SetupFits(spec, k, Put(Profiles, Text))
           /\ \A s \in Side : /\ SetupFits(spec, k, Put(Config(s), Text))
                              /\ SetupFits(spec, k, Put(EnvFile(s), Text))
                              /\ SetupFits(spec, k, Put(Unit(s), Text))
           /\ \A i \in DOMAIN spec.nodes :
                LET n == spec.nodes[i]
                IN  /\ SetupFits(spec, k, Put(ClientCrt(n), Cert(k + 2 + i, k + 1, n)))
                    /\ SetupFits(spec, k, Put(ClientKey(n), Key(k + 2 + i)))
                    /\ SetupFits(spec, k, Copy(BundleCA(n)))
                    /\ SetupFits(spec, k, SetupToken(spec, k + 3 + Len(spec.nodes), n))
  <1> DEFINE first == Cert(k + 1, k + 1, "ca")
             len   == Len(spec.nodes)
             R(p, c) == Right("setupServer", spec, first, p, c)
  <1>1. /\ spec.nodes \in Seq(Node) /\ IsInjective(spec.nodes)
        /\ len \in Nat
        /\ first.key = k + 1
    BY ProvisionAssumption, Fields DEF ServerSpec
  <1>2. \A i \in DOMAIN spec.nodes : i \in Nat /\ spec.nodes[i] \in Node  BY <1>1
  <1>3. \A i, j \in DOMAIN spec.nodes : spec.nodes[i] = spec.nodes[j] => i = j
    BY <1>1 DEF IsInjective
  <1> HIDE DEF first, len
  <1> USE DEF CACrt, CAKey, ServerCrt, ServerKey, SecretFile, Profiles, Config, EnvFile, Unit,
              ClientCrt, ClientKey, BundleCA, Token
  <1>4. /\ R(CACrt, Cert(k + 1, k + 1, "ca")) /\ R(CAKey, Key(k + 1))
        /\ R(ServerCrt, Cert(k + 2, k + 1, "server")) /\ R(ServerKey, Key(k + 2))
    BY <1>1 DEF Right
  <1>5. R(SecretFile, Secret(k + 3 + len))
    <2>1. k + 3 + len = k + 1 + 2 + len  BY <1>1
    <2> QED  BY <1>1, <2>1 DEF Right, len
  <1>6. /\ R(Profiles, Text)
        /\ \A s \in Side : R(Config(s), Text) /\ R(EnvFile(s), Text) /\ R(Unit(s), Text)
    BY DEF Right
  <1>7. ASSUME NEW i \in DOMAIN spec.nodes
        PROVE  LET n == spec.nodes[i]
               IN  /\ R(ClientCrt(n), Cert(k + 2 + i, k + 1, n))
                   /\ R(ClientKey(n), Key(k + 2 + i))
                   /\ R(Token(n), JWT(k + 3 + len, n, allowedProfilesForNode(spec.allowed, n)))
    <2> DEFINE n == spec.nodes[i]
    <2>1. \A j \in DOMAIN spec.nodes : n = spec.nodes[j] => j = i  BY <1>3
    <2>2. k + 2 + i = k + 1 + 1 + i /\ k + 3 + len = k + 1 + 2 + len  BY <1>1, <1>2
    <2> HIDE DEF n
    <2>3. R(ClientCrt(n), Cert(k + 2 + i, k + 1, n))  BY <1>1, <2>1, <2>2 DEF Right, n
    <2>4. R(ClientKey(n), Key(k + 2 + i))  BY <1>1, <2>1, <2>2 DEF Right, n
    <2>5. R(Token(n), JWT(k + 3 + len, n, allowedProfilesForNode(spec.allowed, n)))
      BY <1>1, <2>1, <2>2 DEF Right, len, n
    <2> QED  BY <2>3, <2>4, <2>5 DEF n
  <1>8. /\ SetupFits(spec, k, Put(CACrt, Cert(k + 1, k + 1, "ca")))
        /\ SetupFits(spec, k, Put(CAKey, Key(k + 1)))
        /\ SetupFits(spec, k, Put(ServerCrt, Cert(k + 2, k + 1, "server")))
        /\ SetupFits(spec, k, Put(ServerKey, Key(k + 2)))
    <2>1. /\ CACrt \notin Overwritten /\ CAKey \notin Overwritten
          /\ ServerCrt \notin Overwritten /\ ServerKey \notin Overwritten
      BY DEF Overwritten
    <2>2. k + 1 \in Nat /\ k + 2 \in Nat  OBVIOUS
    <2> QED  BY <1>4, <2>1, <2>2, PutFits, ContentTypes, PathTypes DEF first
  <1>9. /\ SetupFits(spec, k, Put(Profiles, Text))
        /\ \A s \in Side : /\ SetupFits(spec, k, Put(Config(s), Text))
                           /\ SetupFits(spec, k, Put(EnvFile(s), Text))
                           /\ SetupFits(spec, k, Put(Unit(s), Text))
    <2>1. ~Credential(Text)  BY DEF Credential, Text, Content
    <2> QED  BY <1>6, <2>1, PutFits, ContentTypes, PathTypes DEF first
  <1>10. SetupFits(spec, k, Reject)
    <2>1. Reject \in Steps  BY StepTypes
    <2>2. Reject.keep = TRUE /\ Reject.do = "reject" /\ Reject.path = CACrt  BY DEF Reject
    <2>3. CACrt \notin Overwritten  BY DEF Overwritten
    <2> QED  BY <2>1, <2>2, <2>3 DEF SetupFits, StepFits
  <1>11. SetupFits(spec, k, Over(SecretFile, Secret(k + 3 + len)))
    <2> DEFINE s == Over(SecretFile, Secret(k + 3 + len))
    <2>1. k + 3 + len \in Nat  BY <1>1
    <2>2. s \in Steps  BY <2>1, StepTypes, ContentTypes, PathTypes
    <2>3. /\ s.keep = FALSE /\ s.do = "put" /\ s.path = SecretFile
          /\ s.content = Secret(k + 3 + len)
      BY DEF Over
    <2>4. SecretFile \in Overwritten  BY DEF Overwritten
    <2> HIDE DEF s
    <2>5. StepFits("setupServer", spec, first, s)
      BY <1>5, <2>3, <2>4, NoCredentials DEF StepFits
    <2> QED  BY <2>2, <2>5 DEF SetupFits, first, s
  <1>12. ASSUME NEW i \in DOMAIN spec.nodes
         PROVE  LET n == spec.nodes[i]
                IN  /\ SetupFits(spec, k, Put(ClientCrt(n), Cert(k + 2 + i, k + 1, n)))
                    /\ SetupFits(spec, k, Put(ClientKey(n), Key(k + 2 + i)))
                    /\ SetupFits(spec, k, Copy(BundleCA(n)))
                    /\ SetupFits(spec, k, SetupToken(spec, k + 3 + len, n))
    <2> DEFINE n == spec.nodes[i]
    <2>1. n \in Node /\ k + 2 + i \in Nat /\ k + 1 \in Nat /\ k + 3 + len \in Nat
      BY <1>1, <1>2
    <2>2. /\ R(ClientCrt(n), Cert(k + 2 + i, k + 1, n)) /\ R(ClientKey(n), Key(k + 2 + i))
          /\ R(Token(n), JWT(k + 3 + len, n, allowedProfilesForNode(spec.allowed, n)))
      BY <1>7
    <2> HIDE DEF n
    <2>3. /\ ClientCrt(n) \notin Overwritten /\ ClientKey(n) \notin Overwritten
          /\ BundleCA(n) \notin Overwritten
      BY DEF Overwritten
    <2>4. /\ SetupFits(spec, k, Put(ClientCrt(n), Cert(k + 2 + i, k + 1, n)))
          /\ SetupFits(spec, k, Put(ClientKey(n), Key(k + 2 + i)))
      BY <2>1, <2>2, <2>3, PutFits, ContentTypes, PathTypes DEF first
    <2>5. SetupFits(spec, k, Copy(BundleCA(n)))
      <3>1. Copy(BundleCA(n)) \in Steps  BY <2>1, StepTypes, PathTypes
      <3>2. /\ Copy(BundleCA(n)).keep = TRUE /\ Copy(BundleCA(n)).do = "copy"
            /\ Copy(BundleCA(n)).path = BundleCA(n)
        BY DEF Copy
      <3> QED  BY <2>1, <2>3, <3>1, <3>2 DEF SetupFits, StepFits
    <2>6. SetupFits(spec, k, SetupToken(spec, k + 3 + len, n))
      <3> DEFINE ps == allowedProfilesForNode(spec.allowed, n)
                 c  == JWT(k + 3 + len, n, ps)
      <3>1. ps \in SUBSET Profile  BY DEF allowedProfilesForNode
      <3>2. c \in Contents  BY <2>1, <3>1, ContentTypes
      <3>3. ~Credential(c)  BY Fields DEF Credential
      <3>4. SetupFits(spec, k, Put(Token(n), c))
        BY <2>1, <2>2, <3>2, <3>3, PutFits, PathTypes DEF first
      <3> QED  BY <1>10, <3>4 DEF SetupToken
    <2> QED  BY <2>4, <2>5, <2>6 DEF n
  <1> QED  BY <1>8, <1>9, <1>10, <1>11, <1>12 DEF len


\* Bundles: three steps for each node.
LEMMA BundleSteps ==
    ASSUME NEW spec \in ServerSpecs, NEW k \in Nat
    PROVE  /\ IssueBundles(spec, k) \in Seq({s \in Steps : SetupFits(spec, k, s)})
           /\ \A i \in DOMAIN spec.nodes :
                LET n == spec.nodes[i]
                IN  {Put(ClientCrt(n), Cert(k + 2 + i, k + 1, n)),
                     Put(ClientKey(n), Key(k + 2 + i)), Copy(BundleCA(n))}
                       \subseteq Range(IssueBundles(spec, k))
  <1> DEFINE crt(i) == Put(ClientCrt(spec.nodes[i]), Cert(k + 2 + i, k + 1, spec.nodes[i]))
             key(i) == Put(ClientKey(spec.nodes[i]), Key(k + 2 + i))
             ca(i)  == Copy(BundleCA(spec.nodes[i]))
             F == {s \in Steps : SetupFits(spec, k, s)}
             plan == IssueBundles(spec, k)
             len == Len(spec.nodes)
  <1>1. len \in Nat /\ DOMAIN spec.nodes = 1..len
    BY ProvisionAssumption DEF ServerSpec
  <1>2. \A i \in 1..len : crt(i) \in F /\ key(i) \in F /\ ca(i) \in F
    BY <1>1, SetupStepsFit DEF SetupFits
  <1>3. \A i : /\ IssueBundle(spec, k, i)[1] = crt(i)
               /\ IssueBundle(spec, k, i)[2] = key(i)
               /\ IssueBundle(spec, k, i)[3] = ca(i)
    BY DEF IssueBundle, IssueClient, Leaf
  <1>4. plan = [j \in 1..(3 * len) |->
                  IssueBundle(spec, k, ((j - 1) \div 3) + 1)[((j - 1) % 3) + 1]]
    BY DEF IssueBundles
  <1> HIDE DEF crt, key, ca, F, plan, len
  <1>5. \A j \in 1..(3 * len) : ((j - 1) \div 3) + 1 \in 1..len /\ ((j - 1) % 3) + 1 \in 1..3
    BY <1>1
  <1>6. \A j \in 1..(3 * len) : plan[j] \in F
    BY <1>2, <1>3, <1>4, <1>5
  <1>7. plan \in Seq(F)
    BY <1>1, <1>4, <1>6
  <1>8. ASSUME NEW i \in 1..len
        PROVE  crt(i) \in Range(plan) /\ key(i) \in Range(plan) /\ ca(i) \in Range(plan)
    <2>1. /\ 3 * i - 2 \in 1..(3 * len) /\ ((3 * i - 3) \div 3) + 1 = i
          /\ ((3 * i - 3) % 3) + 1 = 1
      BY <1>1
    <2>2. /\ 3 * i - 1 \in 1..(3 * len) /\ ((3 * i - 2) \div 3) + 1 = i
          /\ ((3 * i - 2) % 3) + 1 = 2
      BY <1>1
    <2>3. /\ 3 * i \in 1..(3 * len) /\ ((3 * i - 1) \div 3) + 1 = i
          /\ ((3 * i - 1) % 3) + 1 = 3
      BY <1>1
    <2>4. plan[3 * i - 2] = crt(i)
      <3>1. 3 * i - 2 - 1 = 3 * i - 3  BY <1>1
      <3> QED  BY <1>3, <1>4, <2>1, <3>1
    <2>5. plan[3 * i - 1] = key(i)
      <3>1. 3 * i - 1 - 1 = 3 * i - 2  BY <1>1
      <3> QED  BY <1>3, <1>4, <2>2, <3>1
    <2>6. plan[3 * i] = ca(i)  BY <1>3, <1>4, <2>3
    <2>7. DOMAIN plan = 1..(3 * len)  BY <1>4
    <2> QED  BY <2>1, <2>2, <2>3, <2>4, <2>5, <2>6, <2>7 DEF Range
  <1> QED  BY <1>1, <1>7, <1>8 DEF crt, key, ca, F, plan, len

\* Tokens: one step for each node.
LEMMA TokenSteps ==
    ASSUME NEW spec \in ServerSpecs, NEW k \in Nat
    PROVE  LET s == k + 3 + Len(spec.nodes)
           IN  /\ IssueTokens(spec, s) \in Seq({t \in Steps : SetupFits(spec, k, t)})
               /\ \A i \in DOMAIN spec.nodes :
                    SetupToken(spec, s, spec.nodes[i]) \in Range(IssueTokens(spec, s))
  <1> DEFINE s == k + 3 + Len(spec.nodes)
             plan == IssueTokens(spec, s)
             F == {t \in Steps : SetupFits(spec, k, t)}
  <1>1. Len(spec.nodes) \in Nat /\ DOMAIN spec.nodes = 1..Len(spec.nodes)
    BY ProvisionAssumption DEF ServerSpec
  <1>2. plan = [i \in 1..Len(spec.nodes) |-> SetupToken(spec, s, spec.nodes[i])]
    BY <1>1 DEF IssueTokens
  <1>3. \A i \in DOMAIN spec.nodes : SetupToken(spec, s, spec.nodes[i]) \in F
    BY SetupStepsFit DEF SetupFits
  <1> HIDE DEF s, plan, F
  <1>4. plan \in Seq(F)  BY <1>1, <1>2, <1>3
  <1>5. \A i \in DOMAIN spec.nodes : SetupToken(spec, s, spec.nodes[i]) \in Range(plan)
    BY <1>1, <1>2 DEF Range
  <1> QED  BY <1>4, <1>5 DEF s, plan, F

\* The plan of "setup server" begins with the new CA, and its steps are those
\* of its parts.
LEMMA SetupPlan ==
    ASSUME NEW spec \in ServerSpecs, NEW k \in Nat
    PROVE  LET plan   == executeServerSetup(spec, k)
               secret == k + 3 + Len(spec.nodes)
           IN  /\ plan \in Seq({s \in Steps : SetupFits(spec, k, s)})
               /\ plan # <<>> /\ plan[1] = Put(CACrt, Cert(k + 1, k + 1, "ca"))
               /\ {Put(CACrt, Cert(k + 1, k + 1, "ca")), Put(CAKey, Key(k + 1))}
                    \subseteq Range(plan)
               /\ IF spec.valid
                  THEN {Put(ServerCrt, Cert(k + 2, k + 1, "server")), Put(ServerKey, Key(k + 2))}
                          \subseteq Range(plan)
                  ELSE Reject \in Range(plan)
               /\ spec.auth = "mtls" /\ spec.issue =>
                    Range(IssueBundles(spec, k)) \subseteq Range(plan)
               /\ spec.auth = "jwt" => Over(SecretFile, Secret(secret)) \in Range(plan)
               /\ spec.auth = "jwt" /\ spec.issue =>
                    Range(IssueTokens(spec, secret)) \subseteq Range(plan)
  <1> DEFINE secret == k + 3 + Len(spec.nodes)
             F  == {s \in Steps : SetupFits(spec, k, s)}
             p1 == NewCA(k + 1)
             p2 == IF spec.valid THEN IssueServer(k + 1, k + 2) ELSE <<Reject>>
             p3 == <<Put(Profiles, Text), Put(Config("server"), Text)>>
             p4 == When(spec.env, <<Put(EnvFile("server"), Text)>>)
             p5 == When(spec.auth = "mtls" /\ spec.issue, IssueBundles(spec, k))
             w  == When(spec.issue, IssueTokens(spec, secret))
             p6 == When(spec.auth = "jwt", WriteSecretFile(secret) \o w)
             p7 == When(spec.unit, <<Put(Unit("server"), Text)>>)
             crt == Put(CACrt, Cert(k + 1, k + 1, "ca"))
  <1>1. \A s : SetupFits(spec, k, s) => s \in F  BY DEF SetupFits
  <1>2. /\ crt \in F /\ Put(CAKey, Key(k + 1)) \in F
        /\ Put(ServerCrt, Cert(k + 2, k + 1, "server")) \in F /\ Put(ServerKey, Key(k + 2)) \in F
        /\ Reject \in F /\ Over(SecretFile, Secret(secret)) \in F
        /\ Put(Profiles, Text) \in F /\ Put(Config("server"), Text) \in F
        /\ Put(EnvFile("server"), Text) \in F /\ Put(Unit("server"), Text) \in F
    BY <1>1, SetupStepsFit DEF Side
  <1>3. IssueBundles(spec, k) \in Seq(F)  BY BundleSteps
  <1>4. IssueTokens(spec, secret) \in Seq(F)  BY TokenSteps
  <1> HIDE DEF F, secret, crt
  <1>5. p1 \in Seq(F) /\ Range(p1) = {crt, Put(CAKey, Key(k + 1))} /\ p1 # <<>> /\ p1[1] = crt
    <2>1. p1 = <<crt, Put(CAKey, Key(k + 1))>>  BY DEF NewCA, crt
    <2> HIDE DEF p1
    <2>2. p1 \in Seq(F) /\ Range(p1) = {crt, Put(CAKey, Key(k + 1))}
      BY <1>2, <2>1, RangeOfTwo
    <2> QED  BY <2>1, <2>2
  <1>6. p2 \in Seq(F) /\ Range(p2) = IF spec.valid
                THEN {Put(ServerCrt, Cert(k + 2, k + 1, "server")), Put(ServerKey, Key(k + 2))}
                ELSE {Reject}
    BY <1>2, RangeOfTwo, RangeOfOne DEF IssueServer, Leaf
  <1>7. p3 \in Seq(F)  BY <1>2, RangeOfTwo
  <1>8. p4 \in Seq(F) /\ p7 \in Seq(F)  BY <1>2, RangeOfOne, RangeOfNone DEF When
  <1>9. p5 \in Seq(F) /\ (spec.auth = "mtls" /\ spec.issue => Range(p5) = Range(IssueBundles(spec, k)))
    BY <1>3, RangeOfNone DEF When
  <1>10. w \in Seq(F) /\ (spec.issue => Range(w) = Range(IssueTokens(spec, secret)))
    BY <1>4, RangeOfNone DEF When
  <1>11. WriteSecretFile(secret) \in Seq(F)
            /\ Range(WriteSecretFile(secret)) = {Over(SecretFile, Secret(secret))}
    BY <1>2, RangeOfOne DEF WriteSecretFile
  <1> HIDE DEF w
  <1>12. WriteSecretFile(secret) \o w \in Seq(F)
           /\ Range(WriteSecretFile(secret) \o w)
                = {Over(SecretFile, Secret(secret))} \cup Range(w)
    BY <1>10, <1>11, RangeConcatenation
  <1>13. p6 \in Seq(F) /\ (spec.auth = "jwt" => Range(p6)
                              = {Over(SecretFile, Secret(secret))} \cup Range(w))
    BY <1>12, RangeOfNone DEF When
  <1>14. executeServerSetup(spec, k) = p1 \o p2 \o p3 \o p4 \o p5 \o p6 \o p7
    BY DEF executeServerSetup, secret, w
  <1> HIDE DEF p1, p2, p3, p4, p5, p6, p7
  <1>20. /\ p1 \o p2 \in Seq(F) /\ Range(p1 \o p2) = Range(p1) \cup Range(p2)
         /\ p1 \o p2 # <<>> /\ (p1 \o p2)[1] = crt
    BY <1>5, <1>6, RangeConcatenation
  <1> DEFINE q3 == p1 \o p2 \o p3
             q4 == q3 \o p4
             q5 == q4 \o p5
             q6 == q5 \o p6
             q7 == q6 \o p7
  <1>21. /\ q3 \in Seq(F) /\ Range(q3) = Range(p1) \cup Range(p2) \cup Range(p3)
         /\ q3 # <<>> /\ q3[1] = crt
    <2> DEFINE q2 == p1 \o p2
    <2> HIDE DEF q2
    <2>1. q2 \in Seq(F) /\ q2 # <<>> /\ q2[1] = crt  BY <1>20 DEF q2
    <2>2. /\ q2 \o p3 \in Seq(F) /\ Range(q2 \o p3) = Range(q2) \cup Range(p3)
          /\ q2 \o p3 # <<>> /\ (q2 \o p3)[1] = crt
      BY <1>7, <2>1, RangeConcatenation
    <2> QED  BY <1>20, <2>2 DEF q2
  <1> HIDE DEF q3
  <1>22. /\ q4 \in Seq(F) /\ Range(q4) = Range(q3) \cup Range(p4)
         /\ q4 # <<>> /\ q4[1] = crt
    BY <1>8, <1>21, RangeConcatenation
  <1> HIDE DEF q4
  <1>23. /\ q5 \in Seq(F) /\ Range(q5) = Range(q4) \cup Range(p5)
         /\ q5 # <<>> /\ q5[1] = crt
    BY <1>9, <1>22, RangeConcatenation
  <1> HIDE DEF q5
  <1>24. /\ q6 \in Seq(F) /\ Range(q6) = Range(q5) \cup Range(p6)
         /\ q6 # <<>> /\ q6[1] = crt
    BY <1>13, <1>23, RangeConcatenation
  <1> HIDE DEF q6
  <1>25. /\ q7 \in Seq(F) /\ Range(q7) = Range(q6) \cup Range(p7)
         /\ q7 # <<>> /\ q7[1] = crt
    BY <1>8, <1>24, RangeConcatenation
  <1> HIDE DEF q7
  <1>26. executeServerSetup(spec, k) = q7
    BY <1>14 DEF q3, q4, q5, q6, q7
  <1>27. /\ Range(p1) \subseteq Range(q7) /\ Range(p2) \subseteq Range(q7)
         /\ Range(p5) \subseteq Range(q7) /\ Range(p6) \subseteq Range(q7)
    BY <1>21, <1>22, <1>23, <1>24, <1>25
  <1> DEFINE R == Range(q7)
  <1>30. {crt, Put(CAKey, Key(k + 1))} \subseteq R  BY <1>5, <1>27
  <1>31. IF spec.valid
         THEN {Put(ServerCrt, Cert(k + 2, k + 1, "server")), Put(ServerKey, Key(k + 2))}
                 \subseteq R
         ELSE Reject \in R
    BY <1>6, <1>27
  <1>32. spec.auth = "mtls" /\ spec.issue => Range(IssueBundles(spec, k)) \subseteq R
    BY <1>9, <1>27
  <1>33. spec.auth = "jwt" => Over(SecretFile, Secret(secret)) \in R
    BY <1>13, <1>27
  <1>34. spec.auth = "jwt" /\ spec.issue => Range(IssueTokens(spec, secret)) \subseteq R
    BY <1>10, <1>13, <1>27
  <1> HIDE DEF R
  <1>35. Range(executeServerSetup(spec, k)) = R  BY <1>26 DEF R
  <1> QED  BY <1>25, <1>26, <1>30, <1>31, <1>32, <1>33, <1>34, <1>35 DEF F, secret, crt

\* What a plan names, it covers.
LEMMA Covered ==
    ASSUME NEW plan, NEW s \in Range(plan)
    PROVE  \E j \in DOMAIN plan : plan[j] = s
  BY DEF Range

LEMMA SetupPlanFits ==
    ASSUME NEW spec \in ServerSpecs, NEW k \in Nat
    PROVE  /\ executeServerSetup(spec, k) \in Seq(Steps)
           /\ PlanFits("setupServer", spec, executeServerSetup(spec, k))
  <1> DEFINE plan   == executeServerSetup(spec, k)
             secret == k + 3 + Len(spec.nodes)
             first  == Cert(k + 1, k + 1, "ca")
             covered(p) == \E j \in DOMAIN plan : plan[j].path = p
  <1>1. /\ plan \in Seq({s \in Steps : SetupFits(spec, k, s)})
        /\ plan # <<>> /\ plan[1] = Put(CACrt, first)
        /\ {Put(CACrt, first), Put(CAKey, Key(k + 1))} \subseteq Range(plan)
        /\ IF spec.valid
           THEN {Put(ServerCrt, Cert(k + 2, k + 1, "server")), Put(ServerKey, Key(k + 2))}
                   \subseteq Range(plan)
           ELSE Reject \in Range(plan)
        /\ spec.auth = "mtls" /\ spec.issue => Range(IssueBundles(spec, k)) \subseteq Range(plan)
        /\ spec.auth = "jwt" => Over(SecretFile, Secret(secret)) \in Range(plan)
        /\ spec.auth = "jwt" /\ spec.issue =>
             Range(IssueTokens(spec, secret)) \subseteq Range(plan)
    BY SetupPlan
  <1>2. plan[1].do = "put" /\ plan[1].path = CACrt /\ plan[1].content = first
    BY <1>1 DEF Put
  <1> HIDE DEF plan, secret, first
  <1>3. plan \in Seq(Steps) /\ \A j \in DOMAIN plan : SetupFits(spec, k, plan[j])
    <2>1. \A j \in DOMAIN plan : plan[j] \in {s \in Steps : SetupFits(spec, k, s)}  BY <1>1
    <2>2. \A j \in 1..Len(plan) : plan[j] \in Steps  BY <1>1, <2>1
    <2>3. Len(plan) \in Nat /\ plan = [j \in 1..Len(plan) |-> plan[j]]  BY <1>1
    <2> QED  BY <2>1, <2>2, <2>3
  <1>4. \A j \in DOMAIN plan : StepFits("setupServer", spec, plan[1].content, plan[j])
    BY <1>2, <1>3 DEF SetupFits, first
  <1>5. \A s \in Range(plan) : covered(s.path)
    BY Covered
  <1> HIDE DEF covered
  <1>6. Complete("setupServer", spec, plan)
    <2>1. SUFFICES ASSUME \A j \in DOMAIN plan : plan[j].do # "reject",
                        NEW p \in Needed("setupServer", spec)
                 PROVE  covered(p)
      BY DEF Complete, covered
    <2>2. Reject \notin Range(plan)  BY <2>1, Covered DEF Reject
    <2>3. covered(CACrt) /\ covered(CAKey) /\ covered(ServerCrt) /\ covered(ServerKey)
      BY <1>1, <1>5, <2>2 DEF Put
    <2>4. spec.auth = "jwt" => covered(SecretFile)
      BY <1>1, <1>5 DEF Over
    <2>5. ASSUME spec.auth = "mtls", spec.issue, NEW i \in DOMAIN spec.nodes
          PROVE  /\ covered(ClientCrt(spec.nodes[i])) /\ covered(ClientKey(spec.nodes[i]))
                 /\ covered(BundleCA(spec.nodes[i]))
      <3>1. {Put(ClientCrt(spec.nodes[i]), Cert(k + 2 + i, k + 1, spec.nodes[i])),
             Put(ClientKey(spec.nodes[i]), Key(k + 2 + i)), Copy(BundleCA(spec.nodes[i]))}
                \subseteq Range(plan)
        BY <1>1, <2>5, BundleSteps
      <3> QED  BY <1>5, <3>1 DEF Put, Copy
    <2>6. ASSUME spec.auth = "jwt", spec.issue, NEW i \in DOMAIN spec.nodes
          PROVE  covered(Token(spec.nodes[i]))
      <3> DEFINE n == spec.nodes[i]
      <3>1. SetupToken(spec, secret, n) \in Range(plan)
        BY <1>1, <2>6, TokenSteps DEF secret
      <3>2. SetupToken(spec, secret, n) # Reject  BY <2>2, <3>1
      <3>3. SetupToken(spec, secret, n).path = Token(n)
        BY <3>2 DEF SetupToken, Put
      <3> QED  BY <1>5, <3>1, <3>3
    <2>7. \/ p \in {CACrt, CAKey, ServerCrt, ServerKey}
          \/ spec.auth = "jwt" /\ p = SecretFile
          \/ /\ spec.issue /\ spec.auth = "mtls"
             /\ \E i \in DOMAIN spec.nodes :
                    p \in {ClientCrt(spec.nodes[i]), ClientKey(spec.nodes[i]),
                           BundleCA(spec.nodes[i])}
          \/ /\ spec.issue /\ spec.auth = "jwt"
             /\ \E i \in DOMAIN spec.nodes : p = Token(spec.nodes[i])
      BY <2>1 DEF Needed
    <2> QED  BY <2>3, <2>4, <2>5, <2>6, <2>7
  <1> QED  BY <1>1, <1>2, <1>3, <1>4, <1>6 DEF PlanFits, plan

-----------------------------------------------------------------------------
(* The commands. *)

\* A command that starts has its plan before it.
LEMMA StartKeeps ==
    ASSUME Inv, NEW op \in Ops, NEW arg \in {NoArg} \cup [node : Node] \cup ServerSpecs,
           NEW fresh \in Nat, NEW ok \in BOOLEAN, NEW plan, Start(op, arg, fresh, ok, plan),
           ok => /\ plan \in Seq(Steps)
                 /\ ArgFits(op, arg) /\ PlanFits(op, arg, plan)
                 /\ BaseFits(op, plan[1].content)
    PROVE  Inv'
  <1>1. /\ cmd' = [op |-> op, arg |-> arg, at |-> 1, phase |-> "stat", read |-> Absent,
                   st |-> IF ok THEN "running" ELSE "failed",
                   plan |-> IF ok THEN plan ELSE <<>>]
        /\ keys' = IF ok THEN keys + fresh ELSE keys
        /\ UNCHANGED <<file, aside, issued>>
    BY DEF Start
  <1>2. TypeOK /\ IssuedInv /\ NothingDestroyed  BY DEF Inv
  <1>3. TypeOK'
    <2>1. keys' \in Nat  BY <1>1, <1>2 DEF TypeOK
    <2>2. (IF ok THEN plan ELSE <<>>) \in Seq(Steps) /\ Absent \in Contents
      BY ContentTypes
    <2>3. cmd' \in [op : Ops, arg : {NoArg} \cup [node : Node] \cup ServerSpecs,
                    st : {"none", "running", "done", "failed"}, plan : Seq(Steps),
                    at : Nat, phase : {"stat", "read", "open", "fill"}, read : Contents]
      BY <1>1, <2>2
    <2> QED  BY <1>1, <1>2, <2>1, <2>3 DEF TypeOK
  <1>4. CommandInv'
    <2>1. SUFFICES ASSUME ok
                   PROVE  /\ ArgFits(op, arg) /\ PlanFits(op, arg, plan)
                          /\ BaseFits(cmd.op, First)' /\ Progress' /\ PhaseFits'
      BY <1>1 DEF CommandInv
    <2>2. /\ cmd'.op = op /\ cmd'.arg = arg /\ cmd'.plan = plan /\ cmd'.at = 1
          /\ cmd'.phase = "stat"
      BY <1>1, <2>1
    <2>3. First' = plan[1].content  BY <2>2 DEF First
    <2>4. BaseFits(cmd.op, First)'  BY <1>1, <2>1, <2>2, <2>3 DEF BaseFits
    <2>5. \A j \in DOMAIN plan : ~(j < 1) /\ Len(plan) \in Nat  BY <2>1
    <2>6. Progress'  BY <2>2, <2>5 DEF Progress
    <2>7. PhaseFits'
      <3>1. 1 \in 1..(Len(plan) + 1)  BY <2>1
      <3> QED  BY <2>2, <3>1 DEF PhaseFits
    <2> QED  BY <2>1, <2>4, <2>6, <2>7
  <1>5. IssuedInv' /\ NothingDestroyed'
    BY <1>1, <1>2 DEF IssuedInv, NothingDestroyed
  <1>6. SuccessUsable'
    BY <1>1 DEF SuccessUsable
  <1> QED  BY <1>3, <1>4, <1>5, <1>6 DEF Inv

\* A plan of steps each of which fits, none of which rejects.
LEMMA TwoStepsFit ==
    ASSUME NEW op \in Ops \ {"setupServer"}, NEW arg, NEW p \in Path, NEW q \in Path,
           NEW c \in Contents, NEW d \in Contents,
           p \notin Overwritten, q \notin Overwritten,
           Right(op, arg, c, p, c), Right(op, arg, c, q, d),
           op \in {"caIssueServer", "caIssueClient"} => p # CACrt /\ q # CACrt,
           op # "jwtIssue", Needed(op, arg) \subseteq {p, q}
    PROVE  /\ <<Put(p, c), Put(q, d)>> \in Seq(Steps)
           /\ PlanFits(op, arg, <<Put(p, c), Put(q, d)>>)
           /\ <<Put(p, c), Put(q, d)>>[1].content = c
  <1> DEFINE plan == <<Put(p, c), Put(q, d)>>
  <1>1. Put(p, c) \in Steps /\ Put(q, d) \in Steps  BY StepTypes
  <1>2. /\ Put(p, c).keep = TRUE /\ Put(p, c).do = "put"
        /\ Put(p, c).path = p /\ Put(p, c).content = c
        /\ Put(q, d).keep = TRUE /\ Put(q, d).do = "put"
        /\ Put(q, d).path = q /\ Put(q, d).content = d
    BY DEF Put
  <1>3. StepFits(op, arg, c, Put(p, c)) /\ StepFits(op, arg, c, Put(q, d))
    BY <1>2 DEF StepFits
  <1>4. /\ plan \in Seq(Steps) /\ plan # <<>> /\ DOMAIN plan = {1, 2}
        /\ plan[1] = Put(p, c) /\ plan[2] = Put(q, d)
    BY <1>1
  <1> HIDE DEF plan
  <1>5. Complete(op, arg, plan)
    BY <1>2, <1>4 DEF Complete
  <1>6. PlanFits(op, arg, plan)
    BY <1>2, <1>3, <1>4, <1>5 DEF PlanFits
  <1> QED  BY <1>2, <1>4, <1>6 DEF plan

\* The same for a plan of one file, a secret or a token.
LEMMA OneStepFits ==
    ASSUME NEW op \in {"jwtInit", "jwtIssue"}, NEW arg, NEW p \in Overwritten \cap Path,
           NEW c \in Contents, ~Credential(c), Right(op, arg, c, p, c),
           op = "jwtIssue" => p # SecretFile, Needed(op, arg) \subseteq {p}
    PROVE  /\ <<Over(p, c)>> \in Seq(Steps)
           /\ PlanFits(op, arg, <<Over(p, c)>>)
           /\ <<Over(p, c)>>[1].content = c
  <1> DEFINE plan == <<Over(p, c)>>
  <1>1. Over(p, c) \in Steps  BY StepTypes
  <1>2. /\ Over(p, c).keep = FALSE /\ Over(p, c).do = "put"
        /\ Over(p, c).path = p /\ Over(p, c).content = c
    BY DEF Over
  <1>3. StepFits(op, arg, c, Over(p, c))
    BY <1>2 DEF StepFits
  <1>4. /\ plan \in Seq(Steps) /\ plan # <<>> /\ DOMAIN plan = {1}
        /\ plan[1] = Over(p, c)
    BY <1>1
  <1> HIDE DEF plan
  <1>5. Complete(op, arg, plan)
    BY <1>2, <1>4 DEF Complete
  <1>6. PlanFits(op, arg, plan)
    BY <1>2, <1>3, <1>4, <1>5 DEF PlanFits
  <1> QED  BY <1>2, <1>4, <1>6 DEF plan

\* The certificates and the key a command makes.
LEMMA KeyTypes ==
    ASSUME TypeOK
    PROVE  /\ keys + 1 \in Nat
           /\ \A p \in Path : file[p].key \in Nat
  <1>1. keys + 1 \in Nat  BY DEF TypeOK
  <1>2. \A p \in Path : file[p] \in Contents  BY DEF TypeOK
  <1> QED  BY <1>1, <1>2 DEF Contents

LEMMA CAInitKeeps ==
    ASSUME Inv, CAInit
    PROVE  Inv'
  <1> DEFINE c == Cert(keys + 1, keys + 1, "ca")
             d == Key(keys + 1)
  <1>1. c \in Contents /\ d \in Contents  BY KeyTypes, ContentTypes DEF Inv
  <1>2. Right("caInit", NoArg, c, CACrt, c) /\ Right("caInit", NoArg, c, CAKey, d)
    BY Fields DEF Right, CACrt, CAKey
  <1>3. CACrt \notin Overwritten /\ CAKey \notin Overwritten
    BY DEF Overwritten, CACrt, CAKey, SecretFile, Token
  <1>4. Needed("caInit", NoArg) = {CACrt, CAKey}  BY DEF Needed
  <1> HIDE DEF c, d
  <1>5. /\ <<Put(CACrt, c), Put(CAKey, d)>> \in Seq(Steps)
        /\ PlanFits("caInit", NoArg, <<Put(CACrt, c), Put(CAKey, d)>>)
    BY <1>1, <1>2, <1>3, <1>4, TwoStepsFit, PathTypes DEF Ops
  <1>6. NewCA(keys + 1) \in Seq(Steps) /\ PlanFits("caInit", NoArg, NewCA(keys + 1))
    BY <1>5 DEF NewCA, c, d
  <1>7. \A first : ArgFits("caInit", NoArg) /\ BaseFits("caInit", first)
    BY DEF ArgFits, BaseFits
  <1> QED  BY <1>6, <1>7, StartKeeps DEF CAInit, Ops

LEMMA CAIssueServerKeeps ==
    ASSUME Inv, CAIssueServer
    PROVE  Inv'
  <1> DEFINE ca == file[CACrt].key
             c  == Cert(keys + 1, ca, "server")
             d  == Key(keys + 1)
             ok(valid) == LoadCA /\ MatchesParent /\ valid
  <1>1. c \in Contents /\ d \in Contents
    BY KeyTypes, ContentTypes, PathTypes DEF Inv
  <1>2. /\ Right("caIssueServer", NoArg, c, ServerCrt, c)
        /\ Right("caIssueServer", NoArg, c, ServerKey, d)
    BY Fields DEF Right, ServerCrt, ServerKey
  <1>3. /\ ServerCrt \notin Overwritten /\ ServerKey \notin Overwritten
        /\ ServerCrt # CACrt /\ ServerKey # CACrt
    BY DEF Overwritten, ServerCrt, ServerKey, CACrt, SecretFile, Token
  <1>4. Needed("caIssueServer", NoArg) = {ServerCrt, ServerKey}  BY DEF Needed
  <1>5. c.by = ca  BY Fields
  <1> HIDE DEF c, d
  <1>6. /\ <<Put(ServerCrt, c), Put(ServerKey, d)>> \in Seq(Steps)
        /\ PlanFits("caIssueServer", NoArg, <<Put(ServerCrt, c), Put(ServerKey, d)>>)
        /\ <<Put(ServerCrt, c), Put(ServerKey, d)>>[1].content = c
    BY <1>1, <1>2, <1>3, <1>4, TwoStepsFit, PathTypes DEF Ops
  <1>7. IssueServer(ca, keys + 1) = <<Put(ServerCrt, c), Put(ServerKey, d)>>
    BY DEF IssueServer, Leaf, c, d
  <1>8. ArgFits("caIssueServer", NoArg)  BY DEF ArgFits
  <1>9. LoadCA => BaseFits("caIssueServer", c)
    BY <1>5 DEF BaseFits, LoadCA
  <1>10. PICK valid \in BOOLEAN :
            Start("caIssueServer", NoArg, 1, ok(valid), IssueServer(ca, keys + 1))
    BY DEF CAIssueServer
  <1>11. ok(valid) \in BOOLEAN  BY DEF LoadCA, MatchesParent
  <1>12. ok(valid) => LoadCA  OBVIOUS
  <1> HIDE DEF ok
  <1> QED  BY <1>6, <1>7, <1>8, <1>9, <1>10, <1>11, <1>12, StartKeeps DEF Ops

LEMMA CAIssueClientKeeps ==
    ASSUME Inv, NEW n \in Node, CAIssueClient(n)
    PROVE  Inv'
  <1> DEFINE ca  == file[CACrt].key
             arg == [node |-> n]
             c   == Cert(keys + 1, ca, n)
             d   == Key(keys + 1)
             ok  == LoadCA /\ MatchesParent
  <1>1. c \in Contents /\ d \in Contents
    BY KeyTypes, ContentTypes, PathTypes DEF Inv
  <1>2. /\ Right("caIssueClient", arg, c, ClientCrt(n), c)
        /\ Right("caIssueClient", arg, c, ClientKey(n), d)
    BY Fields DEF Right, ClientCrt, ClientKey
  <1>3. /\ ClientCrt(n) \notin Overwritten /\ ClientKey(n) \notin Overwritten
        /\ ClientCrt(n) # CACrt /\ ClientKey(n) # CACrt
    BY DEF Overwritten, ClientCrt, ClientKey, CACrt, SecretFile, Token
  <1>4. Needed("caIssueClient", arg) = {ClientCrt(n), ClientKey(n)}  BY DEF Needed
  <1>5. c.by = ca  BY Fields
  <1>6. arg \in [node : Node]  OBVIOUS
  <1> HIDE DEF c, d, arg
  <1>7. /\ <<Put(ClientCrt(n), c), Put(ClientKey(n), d)>> \in Seq(Steps)
        /\ PlanFits("caIssueClient", arg, <<Put(ClientCrt(n), c), Put(ClientKey(n), d)>>)
        /\ <<Put(ClientCrt(n), c), Put(ClientKey(n), d)>>[1].content = c
    BY <1>1, <1>2, <1>3, <1>4, TwoStepsFit, PathTypes DEF Ops
  <1>8. IssueClient(ca, keys + 1, n) = <<Put(ClientCrt(n), c), Put(ClientKey(n), d)>>
    BY DEF IssueClient, Leaf, c, d
  <1>9. ArgFits("caIssueClient", arg)  BY <1>6 DEF ArgFits
  <1>10. LoadCA => BaseFits("caIssueClient", c)
    BY <1>5 DEF BaseFits, LoadCA
  <1>11. Start("caIssueClient", arg, 1, ok, IssueClient(ca, keys + 1, n))
    BY DEF CAIssueClient, arg
  <1>12. ok \in BOOLEAN /\ (ok => LoadCA)  BY DEF LoadCA, MatchesParent
  <1> HIDE DEF ok
  <1> QED  BY <1>6, <1>7, <1>8, <1>9, <1>10, <1>11, <1>12, StartKeeps DEF Ops

LEMMA JWTInitKeeps ==
    ASSUME Inv, JWTInit
    PROVE  Inv'
  <1> DEFINE c == Secret(keys + 1)
  <1>1. c \in Contents /\ ~Credential(c)
    BY KeyTypes, ContentTypes, NoCredentials DEF Inv
  <1>2. Right("jwtInit", NoArg, c, SecretFile, c)  BY Fields DEF Right
  <1>3. SecretFile \in Overwritten \cap Path  BY PathTypes DEF Overwritten
  <1>4. Needed("jwtInit", NoArg) = {SecretFile}  BY DEF Needed
  <1> HIDE DEF c
  <1>5. /\ <<Over(SecretFile, c)>> \in Seq(Steps)
        /\ PlanFits("jwtInit", NoArg, <<Over(SecretFile, c)>>)
    BY <1>1, <1>2, <1>3, <1>4, OneStepFits
  <1>6. WriteSecretFile(keys + 1) = <<Over(SecretFile, c)>>  BY DEF WriteSecretFile, c
  <1>7. \A first : ArgFits("jwtInit", NoArg) /\ BaseFits("jwtInit", first)
    BY DEF ArgFits, BaseFits
  <1> QED  BY <1>5, <1>6, <1>7, StartKeeps DEF JWTInit, Ops

LEMMA JWTIssueKeeps ==
    ASSUME Inv, NEW n \in Node, JWTIssue(n)
    PROVE  Inv'
  <1> DEFINE arg == [node |-> n]
             s   == file[SecretFile].key
             c   == JWT(s, n, Profile)
  <1>1. c \in Contents /\ ~Credential(c)
    <2>1. s \in Nat /\ Profile \in SUBSET Profile  BY KeyTypes, PathTypes DEF Inv
    <2>2. ~Credential(c)  BY Fields DEF Credential
    <2> QED  BY <2>1, <2>2, ContentTypes
  <1>2. Right("jwtIssue", arg, c, Token(n), c)  BY Fields DEF Right
  <1>3. Token(n) \in Overwritten \cap Path /\ Token(n) # SecretFile
    BY PathTypes DEF Overwritten, Token, SecretFile
  <1>4. Needed("jwtIssue", arg) = {Token(n)}  BY DEF Needed
  <1>5. c.by = s  BY Fields
  <1>6. arg \in [node : Node]  OBVIOUS
  <1>7. JWTIssue(n) = Start("jwtIssue", arg, 0, LoadSecretFile, <<Over(Token(n), c)>>)
    BY DEF JWTIssue
  <1> HIDE DEF c, arg
  <1>8. /\ <<Over(Token(n), c)>> \in Seq(Steps)
        /\ PlanFits("jwtIssue", arg, <<Over(Token(n), c)>>)
        /\ <<Over(Token(n), c)>>[1].content = c
    BY <1>1, <1>2, <1>3, <1>4, OneStepFits
  <1>9. ArgFits("jwtIssue", arg)  BY <1>6 DEF ArgFits
  <1>10. LoadSecretFile => BaseFits("jwtIssue", c)
    BY <1>5 DEF BaseFits, LoadSecretFile
  <1>11. LoadSecretFile \in BOOLEAN  BY DEF LoadSecretFile
  <1> QED  BY <1>6, <1>7, <1>8, <1>9, <1>10, <1>11, StartKeeps DEF Ops

LEMMA SetupServerKeeps ==
    ASSUME Inv, NEW spec \in ServerSpecs, SetupServer(spec)
    PROVE  Inv'
  <1>1. keys \in Nat  BY DEF Inv, TypeOK
  <1>2. KeysOfServerSetup(spec) \in Nat
    BY ProvisionAssumption DEF KeysOfServerSetup, ServerSpec
  <1>3. \A first : ArgFits("setupServer", spec) /\ BaseFits("setupServer", first)
    BY DEF ArgFits, BaseFits
  <1>4. /\ executeServerSetup(spec, keys) \in Seq(Steps)
        /\ PlanFits("setupServer", spec, executeServerSetup(spec, keys))
    BY <1>1, SetupPlanFits
  <1> QED  BY <1>2, <1>3, <1>4, StartKeeps DEF SetupServer, Ops

LEMMA SetupClientKeeps ==
    ASSUME Inv, SetupClient
    PROVE  Inv'
  <1>1. PICK env \in BOOLEAN, unit \in BOOLEAN :
           Start("setupClient", NoArg, 0, TRUE, executeClientSetup(env, unit))
    BY DEF SetupClient
  <1> DEFINE F  == {Put(Config("client"), Text), Put(EnvFile("client"), Text),
                    Put(Unit("client"), Text)}
             p1 == <<Put(Config("client"), Text)>>
             p2 == When(env, <<Put(EnvFile("client"), Text)>>)
             p3 == When(unit, <<Put(Unit("client"), Text)>>)
             plan == executeClientSetup(env, unit)
  <1>2. \A s \in F : /\ s \in Steps
                     /\ \A first : StepFits("setupClient", NoArg, first, s)
    <2> TAKE s \in F
    <2>1. PICK p \in {Config("client"), EnvFile("client"), Unit("client")} : s = Put(p, Text)
      OBVIOUS
    <2>2. p \in Path  BY PathTypes DEF Side
    <2>3. s \in Steps  BY <2>1, <2>2, StepTypes, ContentTypes
    <2>4. s.keep = TRUE /\ s.do = "put" /\ s.path = p  BY <2>1 DEF Put
    <2>5. p \notin Overwritten
      BY DEF Overwritten, Config, EnvFile, Unit, SecretFile, Token
    <2> QED  BY <2>3, <2>4, <2>5 DEF StepFits, Right
  <1>3. p1 \in Seq(F) /\ p1 # <<>> /\ p2 \in Seq(F) /\ p3 \in Seq(F)
    BY RangeOfOne, RangeOfNone DEF When
  <1>4. plan = p1 \o p2 \o p3  BY DEF executeClientSetup
  <1> HIDE DEF p1, p2, p3, plan, F
  <1>5. p1 \o p2 \in Seq(F) /\ p1 \o p2 # <<>>  BY <1>3
  <1> DEFINE q == p1 \o p2
  <1> HIDE DEF q
  <1>6. q \o p3 \in Seq(F) /\ q \o p3 # <<>>  BY <1>3, <1>5 DEF q
  <1>7. plan \in Seq(F) /\ plan # <<>>  BY <1>4, <1>6 DEF q
  <1>8. \A j \in DOMAIN plan : plan[j] \in F  BY <1>7
  <1>9. plan \in Seq(Steps)
    <2>1. Len(plan) \in Nat /\ plan = [j \in 1..Len(plan) |-> plan[j]]  BY <1>7
    <2>2. \A j \in 1..Len(plan) : plan[j] \in Steps  BY <1>2, <1>7, <1>8
    <2> QED  BY <2>1, <2>2
  <1>10. PlanFits("setupClient", NoArg, plan)
    <2>1. Needed("setupClient", NoArg) = {}  BY DEF Needed
    <2>2. Complete("setupClient", NoArg, plan)  BY <2>1 DEF Complete
    <2> QED  BY <1>2, <1>7, <1>8, <2>2 DEF PlanFits
  <1>11. \A first : ArgFits("setupClient", NoArg) /\ BaseFits("setupClient", first)
    BY DEF ArgFits, BaseFits
  <1> QED  BY <1>1, <1>9, <1>10, <1>11, StartKeeps DEF Ops, plan

-----------------------------------------------------------------------------
(* The theorems. *)

LEMMA InitInv == Init => Inv
  <1> SUFFICES ASSUME Init PROVE Inv
    OBVIOUS
  <1>1. cmd \in [op : Ops, arg : {NoArg} \cup [node : Node] \cup ServerSpecs,
                 st : {"none", "running", "done", "failed"}, plan : Seq(Steps),
                 at : Nat, phase : {"stat", "read", "open", "fill"}, read : Contents]
    BY ContentTypes DEF Init, Ops
  <1>2. TypeOK  BY <1>1, ContentTypes DEF Init, TypeOK
  <1>3. cmd.st = "none" /\ issued = {}  BY DEF Init
  <1> QED
    BY <1>2, <1>3 DEF Inv, CommandInv, IssuedInv, NothingDestroyed, SuccessUsable

\* A step of a running command touches no report of success.
LEMMA RunningSteps ==
    ASSUME Inv, ReadSource \/ MoveAside \/ OpenFile \/ FillFile
    PROVE  Inv'
  <1>1. TypeOK /\ CommandInv /\ IssuedInv /\ NothingDestroyed  BY DEF Inv
  <1>2. cmd'.st # "done"
    BY <1>1 DEF ReadSource, MoveAside, OpenFile, FillFile, Running, Finish, TypeOK
  <1>3. SuccessUsable'  BY <1>2 DEF SuccessUsable
  <1>4. CASE ReadSource
    <2>1. UNCHANGED <<file, aside, issued>>  BY <1>4 DEF ReadSource
    <2>2. IssuedInv' /\ NothingDestroyed'  BY <1>1, <2>1 DEF IssuedInv, NothingDestroyed
    <2> QED  BY <1>1, <1>3, <1>4, <2>2, ReadSourceKeeps DEF Inv
  <1>5. CASE MoveAside
    <2>1. IssuedInv'  BY <1>1, <1>5 DEF MoveAside, IssuedInv
    <2> QED  BY <1>1, <1>3, <1>5, <2>1, MoveAsideKeeps DEF Inv
  <1>6. CASE OpenFile
    <2>1. IssuedInv'  BY <1>1, <1>6 DEF OpenFile, IssuedInv
    <2> QED  BY <1>1, <1>3, <1>6, <2>1, OpenFileKeeps DEF Inv
  <1>7. CASE FillFile
    BY <1>1, <1>3, <1>7, FillFileKeeps DEF Inv
  <1> QED  BY <1>4, <1>5, <1>6, <1>7

\* A command that ends leaves the files as they are.
LEMMA EndSteps ==
    ASSUME Inv, Rejected \/ Succeed \/ Abort
    PROVE  Inv'
  <1>1. TypeOK /\ CommandInv /\ IssuedInv /\ NothingDestroyed  BY DEF Inv
  <1>2. UNCHANGED <<file, aside, keys, issued>>  BY DEF Rejected, Succeed, Abort
  <1>3. IssuedInv' /\ NothingDestroyed'  BY <1>1, <1>2 DEF IssuedInv, NothingDestroyed
  <1>4. CASE Succeed
    BY <1>1, <1>3, <1>4, SucceedKeeps DEF Inv
  <1>5. CASE Rejected \/ Abort
    <2>1. Finish("failed")  BY <1>5 DEF Rejected, Abort
    <2>2. TypeOK' /\ cmd'.st = "failed"  BY <1>1, <1>2, <2>1, EndType
    <2> QED  BY <1>3, <2>2 DEF Inv, CommandInv, SuccessUsable
  <1> QED  BY <1>4, <1>5

LEMMA NextInv == Inv /\ [Next]_vars => Inv'
  <1> SUFFICES ASSUME Inv, [Next]_vars PROVE Inv'
    OBVIOUS
  <1>1. CASE CAInit \/ CAIssueServer \/ JWTInit \/ SetupClient
    BY <1>1, CAInitKeeps, CAIssueServerKeeps, JWTInitKeeps, SetupClientKeeps
  <1>2. CASE \E n \in Node : CAIssueClient(n) \/ JWTIssue(n)
    BY <1>2, CAIssueClientKeeps, JWTIssueKeeps
  <1>3. CASE \E spec \in ServerSpecs : SetupServer(spec)
    BY <1>3, SetupServerKeeps
  <1>4. CASE ReadSource \/ MoveAside \/ OpenFile \/ FillFile
    BY <1>4, RunningSteps
  <1>5. CASE Rejected \/ Succeed \/ Abort
    BY <1>5, EndSteps
  <1>6. CASE UNCHANGED vars
    BY <1>6 DEF vars, Inv, TypeOK, CommandInv, ArgFits, PlanFits, BaseFits, Progress,
        PhaseFits, First, RightNow, Step, IssuedInv, NothingDestroyed, SuccessUsable,
        Usable, LoadCA, MatchesParent, VerifyServerCert, VerifyClientCert, LoadCAPool,
        Signed, LoadX509KeyPair, LoadSecretFile, VerifyToken, Handshake,
        ServerTLSConfig, ClientTLSConfig
  <1> QED  BY <1>1, <1>2, <1>3, <1>4, <1>5, <1>6 DEF Next

\* Between any two steps of any command, executeServerSetup included, what its
\* plan has written so far is at its place and fits together, and whatever step
\* of os.WriteFile a command is in, only the file of that step is torn.
THEOREM InvHolds == Spec => []Inv
  BY InitInv, NextInv, PTL DEF Spec

\* writeBackupAndPEM ("a reissue never silently destroys credentials"): with
\* any commands, interrupted or failed anywhere, every certificate and key
\* that was written to the end is at its path or in a backup of it.
THEOREM NothingDestroyedHolds == Spec => []NothingDestroyed
  BY InvHolds, PTL DEF Inv

\* A command that reports success leaves files that work together, whatever
\* the commands before it left half done.
THEOREM SuccessUsableHolds == Spec => []SuccessUsable
  BY InvHolds, PTL DEF Inv

=============================================================================
