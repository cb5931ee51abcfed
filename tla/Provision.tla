----------------------------- MODULE Provision -----------------------------
(***************************************************************************)
(* The operator's commands that create credentials (cmd/pangaeactl: ca,    *)
(* jwt, setup; internal/pki, internal/jwtauth) over the files of one       *)
(* server directory and of the bundles it hands out.  A command is a plan  *)
(* of file writes that runs step by step; it may be interrupted, or fail   *)
(* on an I/O error, between any two steps and inside a write, and the next *)
(* command finds the files it left.  One command runs at a time.  A key, a *)
(* secret and the certificate that carries the public key are one number.  *)
(***************************************************************************)
EXTENDS Naturals, Sequences, SequencesExt

CONSTANTS
    Node,        \* node IDs; also the names of their bundle directories
    Profile,     \* profile names
    ServerSpecs, \* the answers "setup server" may be given
    MaxCommands, \* bound on the commands started
    MaxAborts    \* bound on interrupts and I/O errors

\* The answers the prompts let through: a node is named once, every profile
\* allows a node.
ServerSpec(spec) ==
    /\ spec.auth \in {"mtls", "jwt"}
    /\ spec.nodes \in Seq(Node) /\ IsInjective(spec.nodes)
    /\ spec.allowed \in [Profile -> SUBSET Node \ {{}}]
    /\ {spec.issue, spec.valid, spec.env, spec.unit} \subseteq BOOLEAN

ASSUME ProvisionAssumption ==
    /\ \A spec \in ServerSpecs : ServerSpec(spec)
    /\ MaxCommands \in Nat /\ MaxAborts \in Nat

\* Directory, subject, kind.
CACrt        == <<"pki", "ca", "crt">>
CAKey        == <<"pki", "ca", "key">>
ServerCrt    == <<"pki", "server", "crt">>
ServerKey    == <<"pki", "server", "key">>
SecretFile   == <<"pki", "jwt", "secret">>
ClientCrt(n) == <<"issued-clients", n, "crt">>
ClientKey(n) == <<"issued-clients", n, "key">>
BundleCA(n)  == <<"issued-clients", n, "ca">>
Token(n)     == <<"issued-jwt", n, "token">>
Config(side) == <<"etc", side, "yaml">>
Profiles     == <<"etc", "profiles", "yaml">>
EnvFile(side) == <<"etc", side, "env">>
Unit(side)   == <<"etc", side, "service">>

Side == {"server", "client"}

Path == {CACrt, CAKey, ServerCrt, ServerKey, SecretFile, Profiles}
            \cup {Config(s) : s \in Side} \cup {EnvFile(s) : s \in Side}
            \cup {Unit(s) : s \in Side}
            \cup {ClientCrt(n) : n \in Node} \cup {ClientKey(n) : n \in Node}
            \cup {BundleCA(n) : n \in Node} \cup {Token(n) : n \in Node}

\* What a file holds.  "torn": a write that did not end; for the secret, whose
\* reader accepts any text, its beginning is another secret ("secret" again).
Content(kind, key, by, cn, profiles) ==
    [kind |-> kind, key |-> key, by |-> by, cn |-> cn, profiles |-> profiles]
Absent         == Content("absent", 0, 0, "", {})
Torn           == Content("torn", 0, 0, "", {})
Cert(k, s, cn) == Content("cert", k, s, cn, {})
Key(k)         == Content("key", k, 0, "", {})
Secret(k)      == Content("secret", k, 0, "", {})
JWT(s, n, ps)  == Content("token", 0, s, n, ps)
Text           == Content("text", 0, 0, "", {})

VARIABLES
    file,      \* path -> its content
    aside,     \* the files renamed to <path>.bak.<nanoseconds>
    cmd,       \* the command: its operation, argument, plan, the step it is at
    keys,      \* the number of keys and secrets generated so far
    commands, aborts, \* how many commands started, how many were cut short
    issued     \* history: the certificates and keys written to the end

vars == <<file, aside, cmd, keys, commands, aborts, issued>>

Exists(p) == file[p] # Absent

-----------------------------------------------------------------------------
(* The plans. *)

Put(p, c)   == [do |-> "put", path |-> p, content |-> c, keep |-> TRUE]
Over(p, c)  == [do |-> "put", path |-> p, content |-> c, keep |-> FALSE]
Copy(p)     == [do |-> "copy", path |-> p, content |-> Text, keep |-> TRUE]
Reject      == [do |-> "reject", path |-> CACrt, content |-> Text, keep |-> TRUE]

When(b, plan) == IF b THEN plan ELSE <<>>

\* pki.NewCA, then pki.signAndWriteLeaf: certificate first, key second.
NewCA(k) == <<Put(CACrt, Cert(k, k, "ca")), Put(CAKey, Key(k))>>
Leaf(crt, key, k, ca, cn) == <<Put(crt, Cert(k, ca, cn)), Put(key, Key(k))>>

IssueServer(ca, k)    == Leaf(ServerCrt, ServerKey, k, ca, "server")
IssueClient(ca, k, n) == Leaf(ClientCrt(n), ClientKey(n), k, ca, n)

\* The bundle of the i-th node, three files; the bundles of all the nodes.
IssueBundle(spec, k, i) ==
    IssueClient(k + 1, k + 2 + i, spec.nodes[i]) \o <<Copy(BundleCA(spec.nodes[i]))>>
IssueBundles(spec, k) ==
    [j \in 1..(3 * Len(spec.nodes)) |->
        IssueBundle(spec, k, ((j - 1) \div 3) + 1)[((j - 1) % 3) + 1]]

\* Mutant: a secret that exists is kept, the tokens signed with the new one.
KeepSecretFile(k) == IF Exists(SecretFile) THEN <<>> ELSE <<Over(SecretFile, Secret(k))>>

\* jwtauth.WriteSecretFile: no backup.
WriteSecretFile(k) == <<Over(SecretFile, Secret(k))>>

allowedProfilesForNode(allowed, n) == {p \in Profile : n \in allowed[p]}

\* One token of "setup server": a node no profile allows ends the command.
SetupToken(spec, s, n) ==
    LET ps == allowedProfilesForNode(spec.allowed, n)
    IN  IF ps = {} THEN Reject ELSE Put(Token(n), JWT(s, n, ps))

IssueTokens(spec, s) == [i \in DOMAIN spec.nodes |-> SetupToken(spec, s, spec.nodes[i])]

\* executeServerSetup.  Subject names and lifetimes are looked at only when
\* the new CA is on disk; the secret and the CA are new on every run.
executeServerSetup(spec, k) ==
    LET ca     == k + 1
        secret == k + 3 + Len(spec.nodes)
    IN  NewCA(ca)
        \o (IF spec.valid THEN IssueServer(ca, k + 2) ELSE <<Reject>>)
        \o <<Put(Profiles, Text), Put(Config("server"), Text)>>
        \o When(spec.env, <<Put(EnvFile("server"), Text)>>)
        \o When(spec.auth = "mtls" /\ spec.issue, IssueBundles(spec, k))
        \o When(spec.auth = "jwt",
                WriteSecretFile(secret)
                    \o When(spec.issue, IssueTokens(spec, secret)))
        \o When(spec.unit, <<Put(Unit("server"), Text)>>)

KeysOfServerSetup(spec) == 3 + Len(spec.nodes)

executeClientSetup(env, unit) ==
    <<Put(Config("client"), Text)>>
        \o When(env, <<Put(EnvFile("client"), Text)>>)
        \o When(unit, <<Put(Unit("client"), Text)>>)

-----------------------------------------------------------------------------
(* What the readers of the files accept. *)

\* pki.LoadCA, and the check of x509.CreateCertificate that the key is the
\* one of the parent certificate.
LoadCA == /\ file[CACrt].kind = "cert" /\ file[CACrt].cn = "ca"
          /\ file[CAKey].kind = "key"
MatchesParent == file[CAKey].key = file[CACrt].key

LoadCAPool(p)        == file[p].kind = "cert"
LoadX509KeyPair(c, k) == /\ file[c].kind = "cert" /\ file[k].kind = "key"
                         /\ file[c].key = file[k].key
Signed(p, ca)        == file[p].kind = "cert" /\ file[p].by = file[ca].key

VerifyServerCert ==
    LoadCAPool(CACrt) /\ Signed(ServerCrt, CACrt) /\ file[ServerCrt].cn = "server"
VerifyClientCert(n) ==
    LoadCAPool(CACrt) /\ Signed(ClientCrt(n), CACrt) /\ file[ClientCrt(n)].cn = n

ServerTLSConfig ==
    LoadX509KeyPair(ServerCrt, ServerKey) /\ LoadCAPool(CACrt)
ClientTLSConfig(n) ==
    LoadCAPool(BundleCA(n)) /\ LoadX509KeyPair(ClientCrt(n), ClientKey(n))

LoadSecretFile == file[SecretFile].kind = "secret"
VerifyToken(n) == /\ LoadSecretFile /\ file[Token(n)].kind = "token"
                  /\ file[Token(n)].by = file[SecretFile].key
                  /\ file[Token(n)].cn = n

\* The agent of node n and the server accept each other.
Handshake(n) == /\ ServerTLSConfig /\ ClientTLSConfig(n)
                /\ Signed(ServerCrt, BundleCA(n))
                /\ VerifyClientCert(n)

-----------------------------------------------------------------------------
NoArg == [auth |-> "none"]

Init ==
    /\ file = [p \in Path |-> Absent]
    /\ aside = {} /\ issued = {}
    /\ cmd = [op |-> "none", arg |-> NoArg, st |-> "none",
              plan |-> <<>>, at |-> 1, phase |-> "stat", read |-> Absent]
    /\ keys = 0 /\ commands = 0 /\ aborts = 0

\* A command starts: it has its plan, or one of its checks refuses it.
Start(op, arg, fresh, ok, plan) ==
    /\ cmd.st # "running" /\ commands < MaxCommands
    /\ commands' = commands + 1
    /\ cmd' = [op |-> op, arg |-> arg, at |-> 1, phase |-> "stat", read |-> Absent,
               st |-> IF ok THEN "running" ELSE "failed",
               plan |-> IF ok THEN plan ELSE <<>>]
    /\ keys' = IF ok THEN keys + fresh ELSE keys
    /\ UNCHANGED <<file, aside, aborts, issued>>

\* ca init
CAInit == Start("caInit", NoArg, 1, TRUE, NewCA(keys + 1))

\* ca issue-server; valid: the subject names parse, the lifetime fits the CA's.
CAIssueServer ==
    \E valid \in BOOLEAN :
        Start("caIssueServer", NoArg, 1, LoadCA /\ MatchesParent /\ valid,
              IssueServer(file[CACrt].key, keys + 1))

\* ca issue-client
CAIssueClient(n) ==
    Start("caIssueClient", [node |-> n], 1, LoadCA /\ MatchesParent,
          IssueClient(file[CACrt].key, keys + 1, n))

\* jwt init
JWTInit == Start("jwtInit", NoArg, 1, TRUE, WriteSecretFile(keys + 1))

\* jwt issue --out: the operator names the profiles; no backup either.
JWTIssue(n) ==
    Start("jwtIssue", [node |-> n], 0, LoadSecretFile,
          <<Over(Token(n), JWT(file[SecretFile].key, n, Profile))>>)

SetupServer(spec) ==
    Start("setupServer", spec, KeysOfServerSetup(spec), TRUE,
          executeServerSetup(spec, keys))

SetupClient ==
    \E env, unit \in BOOLEAN :
        Start("setupClient", NoArg, 0, TRUE, executeClientSetup(env, unit))

-----------------------------------------------------------------------------
(* The steps of a command. *)

Step == cmd.plan[cmd.at]

Running(phase) == cmd.st = "running" /\ cmd.at <= Len(cmd.plan) /\ cmd.phase = phase

\* What this step writes.
Data == IF Step.do = "copy" THEN cmd.read ELSE Step.content

\* The command is over: its plan is forgotten.
Finish(st) == cmd' = [cmd EXCEPT !.st = st, !.plan = <<>>, !.at = 1, !.phase = "stat",
                                 !.read = Absent]

\* Mutant: one backup name, "<path>.bak", instead of one per nanosecond.
BackupFixedName(p) ==
    IF Exists(p)
    THEN /\ aside' = {a \in aside : a[1] # p} \cup {<<p, file[p]>>}
         /\ file' = [file EXCEPT ![p] = Absent]
    ELSE UNCHANGED <<aside, file>>

\* backupIfExists, or the rename of writeTextFile: the name is never in use.
BackupIfExists(p) ==
    IF Exists(p)
    THEN /\ aside' = aside \cup {<<p, file[p]>>}
         /\ file' = [file EXCEPT ![p] = Absent]
    ELSE UNCHANGED <<aside, file>>

\* copyFile reads what ca.crt holds now; the rest goes the way of any other write.
ReadSource ==
    /\ Running("stat") /\ Step.do = "copy"
    /\ IF Exists(CACrt) THEN cmd' = [cmd EXCEPT !.phase = "read", !.read = file[CACrt]]
                        ELSE Finish("failed")
    /\ UNCHANGED <<file, aside, keys, commands, aborts, issued>>

MoveAside ==
    /\ \/ Running("stat") /\ Step.do = "put"
       \/ Running("read")
    /\ IF Step.keep THEN BackupIfExists(Step.path) ELSE UNCHANGED <<aside, file>>
    /\ cmd' = [cmd EXCEPT !.phase = "open"]
    /\ UNCHANGED <<keys, commands, aborts, issued>>

\* os.WriteFile has truncated the file and written nothing, or a part.
OpenFile ==
    /\ Running("open")
    /\ cmd' = [cmd EXCEPT !.phase = "fill"]
    /\ \/ /\ file' = [file EXCEPT ![Step.path] = Torn]
          /\ UNCHANGED keys
       \/ /\ Data.kind = "secret"
          /\ keys' = keys + 1
          /\ file' = [file EXCEPT ![Step.path] = Secret(keys + 1)]
    /\ UNCHANGED <<aside, commands, aborts, issued>>

FillFile ==
    /\ Running("fill")
    /\ file' = [file EXCEPT ![Step.path] = Data]
    /\ issued' = IF Data.kind \in {"cert", "key"}
                 THEN issued \cup {<<Step.path, Data>>} ELSE issued
    /\ cmd' = [cmd EXCEPT !.phase = "stat", !.at = @ + 1, !.read = Absent]
    /\ UNCHANGED <<aside, keys, commands, aborts>>

Rejected ==
    /\ Running("stat") /\ Step.do = "reject"
    /\ Finish("failed")
    /\ UNCHANGED <<file, aside, keys, commands, aborts, issued>>

Succeed ==
    /\ cmd.st = "running" /\ cmd.at > Len(cmd.plan)
    /\ Finish("done")
    /\ UNCHANGED <<file, aside, keys, commands, aborts, issued>>

\* An I/O error, an interrupt or a crash: the files stay as they are.
Abort ==
    /\ cmd.st = "running" /\ aborts < MaxAborts
    /\ aborts' = aborts + 1
    /\ Finish("failed")
    /\ UNCHANGED <<file, aside, keys, commands, issued>>

Next ==
    \/ CAInit \/ CAIssueServer \/ JWTInit \/ SetupClient
    \/ \E n \in Node : CAIssueClient(n) \/ JWTIssue(n)
    \/ \E spec \in ServerSpecs : SetupServer(spec)
    \/ ReadSource \/ MoveAside \/ OpenFile \/ FillFile \/ Rejected
    \/ Succeed \/ Abort

Spec == Init /\ [][Next]_vars

-----------------------------------------------------------------------------
\* ca.go:172 "moved aside ... so a reissue never silently destroys
\* credentials": whatever sequence of commands ran, was interrupted or failed,
\* every certificate and key that was written completely is at its path or in
\* a backup of that path.
NothingDestroyed ==
    \A i \in issued : file[i[1]] = i[2] \/ i \in aside

\* What a command that reports success leaves behind.
Usable(op, arg) ==
    CASE op = "caInit"        -> LoadCA /\ MatchesParent
      [] op = "caIssueServer" -> VerifyServerCert /\ LoadX509KeyPair(ServerCrt, ServerKey)
      [] op = "caIssueClient" -> VerifyClientCert(arg.node)
                                     /\ LoadX509KeyPair(ClientCrt(arg.node), ClientKey(arg.node))
      [] op = "jwtInit"       -> LoadSecretFile
      [] op = "jwtIssue"      -> VerifyToken(arg.node)
      [] op = "setupServer"   ->
            /\ LoadCA /\ MatchesParent /\ VerifyServerCert /\ ServerTLSConfig
            /\ arg.issue => \A n \in Range(arg.nodes) :
                   IF arg.auth = "mtls" THEN Handshake(n)
                   ELSE /\ VerifyToken(n)
                        /\ file[Token(n)].profiles = {p \in Profile : n \in arg.allowed[p]}
      [] OTHER -> TRUE

\* A command that reports success leaves a working set: the pair of the CA
\* matches, the leaf verifies against it and has its key, and after "setup
\* server" every node it issued for can connect, whatever the commands before
\* it left half done.
SuccessUsable == cmd.st = "done" => Usable(cmd.op, cmd.arg)
=============================================================================
