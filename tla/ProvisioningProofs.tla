--------------------------- MODULE ProvisioningProofs ---------------------------
(***************************************************************************)
(* Proofs of the safety properties of Provisioning, for any sets of        *)
(* agents, keys and requests and any bound on the key pairs.  The          *)
(* inductive invariant ProvInv has a part per owner of state: BootInv for  *)
(* the CA's and the server's files, StoreInv for the agents' files and the *)
(* requests that write or remove them, and KeyTypes and ReqConsistent for  *)
(* the provision keys.  What carries the argument is the order of the      *)
(* writes: the key's file comes last, and a file that was opened is torn   *)
(* until it is written, so a whole key vouches for the certificate beside  *)
(* it through every crash and error.                                       *)
(***************************************************************************)
EXTENDS Provisioning, TLAPS

\* Types: the files, the requests at work on them, and the keys.

Files == {"caCert", "caKey", "srvCert", "srvKey"}

FileRecord == [state : {"none", "torn", "whole"}, pair : Nat, signer : Nat]

BootTypes ==
    /\ boot \in {"down", "caCert", "caKey", "server", "srvCert", "srvKey", "up"}
    /\ made \in Nat
    /\ file \in [Files -> FileRecord]

PairRecord == [cert : FileRecord, key : FileRecord]

GenRecord ==
    [pc : {"none", "lock", "load", "certOpen", "key", "keyOpen", "keyLost", "created",
           "exists", "failed", "remove"},
     op : {"none", "provision", "create", "delete"},
     agent : Agents \cup {"none"},
     pair : Nat]

StoreTypes ==
    /\ agentFile \in [Agents -> PairRecord]
    /\ dirs \subseteq Agents
    /\ gen \in [Requests -> GenRecord]
    /\ agentCertMu \in Requests \cup {NoRequest}
    /\ disturbed \subseteq Agents

KeyRecord == [stored : BOOLEAN, agent : Agents \cup {"none"},
              used : BOOLEAN, expired : BOOLEAN]

ReqRecord == [pc : {"none", "check", "generate", "mark"}, key : Keys \cup {"none"}]

KeyTypes ==
    /\ keys \in [Keys -> KeyRecord]
    /\ \A k \in Keys : keys[k].stored => keys[k].agent \in Agents
    /\ req \in [Requests -> ReqRecord]

\* The CA's key is written last, for the certificate that is there, and once.
CAConsistent ==
    /\ file["caKey"] # NoFile => file["caCert"] # NoFile
    /\ file["caKey"].state = "whole" =>
          /\ file["caCert"] = Cert(file["caCert"].pair, file["caCert"].pair)
          /\ file["caKey"] = KeyOf(file["caCert"].pair)
    /\ boot = "caCert" => file["caKey"] = NoFile
    /\ boot = "caKey" => /\ file["caKey"] \in {NoFile, Torn}
                         /\ file["caCert"] = Cert(made, made)
    /\ boot \notin {"down", "caCert", "caKey"} => file["caKey"].state = "whole"
    /\ \A p \in Files : /\ file[p].state = "torn" => file[p] = Torn
                        /\ file[p].state = "none" => file[p] = NoFile

\* So is the server's.
ServerConsistent ==
    /\ file["srvKey"] # NoFile => file["srvCert"] # NoFile
    /\ file["srvKey"].state = "whole" =>
          /\ file["srvCert"].state = "whole"
          /\ file["srvCert"].pair = file["srvKey"].pair
    /\ boot = "srvCert" => file["srvKey"] = NoFile
    /\ boot = "srvKey" => /\ file["srvKey"] \in {NoFile, Torn}
                          /\ file["srvCert"].state = "whole" /\ file["srvCert"].pair = made
    /\ boot = "up" => NoFile \notin {file["srvCert"], file["srvKey"]}

\* A certificate that is whole was signed by the CA whose files are complete.
SignedBy(c) ==
    c.state = "whole" =>
        file["caKey"].state = "whole" /\ c.signer = file["caCert"].pair

SignedConsistent ==
    SignedBy(file["srvCert"]) /\ \A a \in Agents : SignedBy(agentFile[a].cert)

\* Requests work on the files only while the server is up.
GenConsistent ==
    \A r \in Requests :
        /\ gen[r].pc # "none" => boot = "up" /\ gen[r].agent \in Agents
        /\ gen[r].pc = "none" => gen[r] = IdleGen
        /\ gen[r].pc = "lock" => gen[r].op = "provision"
        /\ gen[r].pc \in GeneratingAt => gen[r].op \in {"provision", "create"}
        /\ gen[r].pc = "remove" => gen[r].op = "delete"

\* The mutex is held while a provisioning request generates.
MutexConsistent ==
    \A r \in Requests :
        agentCertMu = r <=> gen[r].op = "provision" /\ gen[r].pc \in GeneratingAt

\* A request for Provision has a key of a known agent, and before it called
\* GenerateAgentCertIfNotExists it is not at the files.
ReqConsistent ==
    \A r \in Requests :
        /\ req[r].pc # "none" => /\ boot = "up" /\ req[r].key \in Keys
                                /\ keys[req[r].key].agent \in Agents
        /\ req[r].pc = "check" => gen[r] = IdleGen

\* The files of an agent whose requests do not disturb each other.
PairConsistent(a) ==
    LET cert == agentFile[a].cert
        key == agentFile[a].key
    IN /\ key # NoFile => cert # NoFile
       /\ key.state = "whole" => cert.state = "whole" /\ cert.pair = key.pair
       /\ \A r \in Generating(a) :
             /\ gen[r].pc \in {"load", "certOpen", "key"} => key = NoFile
             /\ gen[r].pc \in {"key", "keyOpen"} =>
                   cert.state = "whole" /\ cert.pair = gen[r].pair
             /\ gen[r].pc = "keyOpen" => key = Torn
             /\ gen[r].pc # "keyLost"
       /\ \A r, s \in Generating(a) : r = s

AgentsConsistent ==
    \A a \in Agents : a \notin disturbed => PairConsistent(a)

BootInv == BootTypes /\ CAConsistent /\ ServerConsistent

-----------------------------------------------------------------------------
\* Most leaves are first-order facts about functions and records, and are left to
\* Zenon; the others name the SMT solver.
USE Zenon

\* What the three kinds of file contents are.
LEMMA FileFacts ==
    /\ NoFile \in FileRecord /\ NoFile.state = "none" /\ NoFile.pair = 0
    /\ Torn \in FileRecord /\ Torn.state = "torn" /\ Torn.pair = 0
    /\ \A n, c \in Nat : /\ Cert(n, c) \in FileRecord /\ Cert(n, c).state = "whole"
                         /\ Cert(n, c).pair = n /\ Cert(n, c).signer = c
    /\ \A n \in Nat : /\ KeyOf(n) \in FileRecord /\ KeyOf(n).state = "whole"
                      /\ KeyOf(n).pair = n
  BY DEF FileRecord, NoFile, Torn, Cert, KeyOf

\* A first start finds no file.
LEMMA BootInvInit ==
    ASSUME StoreInit
    PROVE  BootInv
  BY FileFacts DEF StoreInit, BootInv, BootTypes, CAConsistent, ServerConsistent, Files

\* The start looks at the files and decides what to make.
LEMMA BootLooks ==
    ASSUME BootInv, BootCA \/ BootServer
    PROVE  BootInv'
  <1>1. made' \in Nat /\ file' = file
    BY CertAssumption, SMT DEF BootCA, BootServer, NewPair, Pairs, BootInv, BootTypes
  <1>2. /\ boot' \in {"down", "caCert", "server", "srvCert", "up"}
        /\ boot' = "caCert" => NoFile \in {file["caCert"], file["caKey"]}
        /\ boot' \in {"server", "srvCert", "up"} => file["caKey"].state = "whole"
        /\ boot' = "srvCert" => NoFile \in {file["srvCert"], file["srvKey"]}
        /\ boot' = "up" => NoFile \notin {file["srvCert"], file["srvKey"]}
    <2>1. CASE BootCA
      <3>1. \A p \in Files : file[p] # NoFile /\ file[p] # Torn => file[p].state = "whole"
        BY DEF BootInv, BootTypes, CAConsistent, FileRecord
      <3>. QED
        BY <2>1, <3>1 DEF BootCA, Files
    <2>2. CASE BootServer
      BY <2>2 DEF BootServer, BootInv, CAConsistent
    <2>. QED
      BY <2>1, <2>2
  <1>3. NoFile \in {file["caCert"], file["caKey"]} => file["caKey"] = NoFile
    BY FileFacts DEF BootInv, BootTypes, CAConsistent, Files
  <1>4. NoFile \in {file["srvCert"], file["srvKey"]} => file["srvKey"] = NoFile
    BY DEF BootInv, ServerConsistent
  <1>. QED
    BY <1>1, <1>2, <1>3, <1>4
       DEF BootInv, BootTypes, CAConsistent, ServerConsistent, Files

\* What a whole write of file p leaves there, and where the start goes from it.
LEMMA WriteFacts ==
    /\ Contents("caCert") = Cert(made, made) /\ BootOrder["caCert"] = "caKey"
    /\ Contents("caKey") = KeyOf(made) /\ BootOrder["caKey"] = "server"
    /\ Contents("srvCert") = Cert(made, file["caCert"].pair) /\ BootOrder["srvCert"] = "srvKey"
    /\ Contents("srvKey") = KeyOf(made) /\ BootOrder["srvKey"] = "up"
  BY DEF Contents, BootOrder

\* A file is truncated.
LEMMA BootTears ==
    ASSUME BootInv, NEW p \in Files, BootWrite(p), file[p] # Torn
    PROVE  BootInv'
  <1>1. /\ boot = p /\ boot' = boot /\ made' = made
        /\ file'[p] = Torn /\ \A q \in Files : q # p => file'[q] = file[q]
        /\ file' \in [Files -> FileRecord]
    BY FileFacts, SMT DEF BootWrite, BootInv, BootTypes
  <1>. QED
    BY <1>1, FileFacts, SMT DEF BootInv, BootTypes, CAConsistent, ServerConsistent, Files

\* A file is written whole.
LEMMA BootFills ==
    ASSUME BootInv, NEW p \in Files, BootWrite(p), file[p] = Torn
    PROVE  BootInv'
  <1>1. /\ boot = p /\ file' = [file EXCEPT ![p] = Contents(p)] /\ boot' = BootOrder[p]
        /\ made' = IF p \in {"caKey", "srvKey"} THEN 0 ELSE made
    BY DEF BootWrite
  <1>2. made \in Nat /\ \A q \in Files : file[q] \in FileRecord /\ file[q].pair \in Nat
    BY DEF BootInv, BootTypes, FileRecord
  <1>3. CASE p = "caCert"
    BY <1>1, <1>2, <1>3, WriteFacts, FileFacts, SMT
       DEF BootInv, BootTypes, CAConsistent, ServerConsistent, Files
  <1>4. CASE p = "caKey"
    BY <1>1, <1>2, <1>4, WriteFacts, FileFacts, SMT
       DEF BootInv, BootTypes, CAConsistent, ServerConsistent, Files
  <1>5. CASE p = "srvCert"
    BY <1>1, <1>2, <1>5, WriteFacts, FileFacts, SMT
       DEF BootInv, BootTypes, CAConsistent, ServerConsistent, Files
  <1>6. CASE p = "srvKey"
    BY <1>1, <1>2, <1>6, WriteFacts, FileFacts, SMT
       DEF BootInv, BootTypes, CAConsistent, ServerConsistent, Files
  <1>. QED
    BY <1>3, <1>4, <1>5, <1>6 DEF Files

-----------------------------------------------------------------------------
StoreInv ==
    /\ StoreTypes /\ SignedConsistent /\ GenConsistent /\ MutexConsistent
    /\ AgentsConsistent

\* What a step on the files of agent a, and on the requests that work on them, leaves
\* alone.
LEMMA OtherAgents ==
    ASSUME NEW a \in Agents, NEW b \in Agents, b # a, agentFile'[b] = agentFile[b],
           \A s \in Requests : \/ gen'[s] = gen[s]
                               \/ /\ gen[s].pc \in GeneratingAt => gen[s].agent = a
                                  /\ gen'[s].pc \in GeneratingAt => gen'[s].agent = a
    PROVE  /\ Generating(b)' = Generating(b)
           /\ PairConsistent(b) => PairConsistent(b)'
  <1>1. \A s \in Requests : s \in Generating(b)' <=> s \in Generating(b)
    BY SMT DEF Generating
  <1>2. Generating(b)' = Generating(b)
    BY <1>1 DEF Generating
  <1>3. \A s \in Generating(b) : gen'[s] = gen[s]
    BY DEF Generating
  <1>. QED
    BY <1>2, <1>3 DEF PairConsistent

\* A request begins to generate or to delete the files of an agent.
LEMMA AdminCallsInv ==
    ASSUME BootInv, StoreInv, NEW r \in Requests, NEW a \in Agents,
           CreateAgentCertificate(r, a) \/ DeleteAgentCertificate(r, a)
    PROVE  StoreInv'
  <1>1. /\ boot = "up" /\ gen[r] = IdleGen
        /\ UNCHANGED <<bootVars, agentFile, dirs, agentCertMu>>
    BY DEF CreateAgentCertificate, DeleteAgentCertificate
  <1>2. /\ \A s \in Requests : s # r => gen'[s] = gen[s]
        /\ gen'[r].agent = a
        /\ \/ gen'[r].pc = "load" /\ gen'[r].op = "create"
           \/ gen'[r].pc = "remove" /\ gen'[r].op = "delete"
        /\ gen' \in [Requests -> GenRecord]
    BY SMT DEF CreateAgentCertificate, DeleteAgentCertificate, StoreInv, StoreTypes, GenRecord
  <1>3. gen[r].pc = "none" /\ gen[r].op = "none"
    BY <1>1, SMT DEF IdleGen
  <1>4. /\ disturbed \subseteq disturbed' /\ disturbed' \subseteq Agents
        /\ \A b \in Agents : b # a => (b \in disturbed' <=> b \in disturbed)
        /\ gen'[r].pc = "load" /\ a \notin disturbed' =>
              Generating(a) = {} /\ ~AgentCertExists(a)
    BY <1>2, SMT DEF CreateAgentCertificate, DeleteAgentCertificate, StoreInv, StoreTypes
  <1>5. StoreTypes' /\ SignedConsistent'
    BY <1>1, <1>2, <1>4 DEF StoreInv, StoreTypes, SignedConsistent, SignedBy, bootVars
  <1>6. GenConsistent' /\ MutexConsistent'
    BY <1>1, <1>2, <1>3, SMT DEF StoreInv, GenConsistent, MutexConsistent, bootVars, GeneratingAt
  <1>7. ASSUME NEW b \in Agents, b # a
        PROVE  b \notin disturbed' => PairConsistent(b)'
    BY <1>1, <1>2, <1>3, <1>4, <1>7, OtherAgents DEF StoreInv, AgentsConsistent, GeneratingAt
  <1>8. ASSUME a \notin disturbed' PROVE PairConsistent(a)'
    <2>1. PairConsistent(a)
      BY <1>4, <1>8 DEF StoreInv, AgentsConsistent
    <2>2. CASE gen'[r].pc = "load"
      <3>1. Generating(a)' = {r}
        BY <1>2, <1>4, <1>8, <2>2 DEF Generating, GeneratingAt
      <3>2. agentFile[a].key = NoFile
        BY <1>4, <1>8, <2>1, <2>2 DEF PairConsistent, AgentCertExists
      <3>. QED
        BY <1>1, <2>1, <2>2, <3>1, <3>2 DEF PairConsistent
    <2>3. CASE gen'[r].pc = "remove"
      <3>1. Generating(a)' = Generating(a) /\ r \notin Generating(a)
        BY <1>2, <1>3, <2>3 DEF Generating, GeneratingAt
      <3>2. \A s \in Generating(a) : gen'[s] = gen[s]
        BY <1>2, <3>1 DEF Generating
      <3>. QED
        BY <1>1, <2>1, <3>1, <3>2 DEF PairConsistent
    <2>. QED
      BY <1>2, <2>2, <2>3
  <1>. QED
    BY <1>5, <1>6, <1>7, <1>8 DEF StoreInv, AgentsConsistent

\* A request that is not generating moves to another such place; an agent whose files
\* are gone, and not being written, is disturbed no more.
LEMMA WaitingInv ==
    ASSUME StoreInv, NEW r \in Requests, NEW q \in GenRecord, gen' = [gen EXCEPT ![r] = q],
           gen[r].pc \notin GeneratingAt, q.pc \notin GeneratingAt,
           q.pc # "none" => boot = "up" /\ q.agent \in Agents,
           q.pc = "none" => q = IdleGen,
           q.pc = "lock" => q.op = "provision", q.pc = "remove" => q.op = "delete",
           UNCHANGED <<bootVars, agentFile, agentCertMu>>, dirs' \subseteq Agents,
           disturbed' \subseteq disturbed,
           \A a \in disturbed \ disturbed' :
              /\ agentFile[a].cert = NoFile /\ agentFile[a].key = NoFile
              /\ Generating(a) = {}
    PROVE  StoreInv'
  <1>1. /\ gen'[r] = q /\ \A s \in Requests : s # r => gen'[s] = gen[s]
        /\ gen' \in [Requests -> GenRecord]
    BY DEF StoreInv, StoreTypes
  <1>2. StoreTypes' /\ SignedConsistent'
    BY <1>1 DEF StoreInv, StoreTypes, SignedConsistent, SignedBy, bootVars
  <1>3. GenConsistent' /\ MutexConsistent'
    BY <1>1 DEF StoreInv, GenConsistent, MutexConsistent, bootVars
  <1>4. ASSUME NEW a \in Agents PROVE Generating(a)' = Generating(a) /\ r \notin Generating(a)
    BY <1>1 DEF Generating
  <1>5. ASSUME NEW a \in Agents, PairConsistent(a) PROVE PairConsistent(a)'
    <2>1. \A s \in Generating(a) : gen'[s] = gen[s]
      BY <1>1, <1>4 DEF Generating
    <2>. QED
      BY <1>4, <1>5, <2>1, SMT DEF PairConsistent
  <1>6. ASSUME NEW a \in disturbed \ disturbed' PROVE PairConsistent(a)
    BY FileFacts DEF PairConsistent
  <1>7. disturbed \subseteq Agents
    BY DEF StoreInv, StoreTypes
  <1>. QED
    BY <1>2, <1>3, <1>5, <1>6, <1>7 DEF StoreInv, AgentsConsistent

\* A request on its way through GenerateAgentCert works on the files of one agent.
LEMMA AtWork ==
    ASSUME StoreInv, NEW r \in Requests, gen[r].pc \in GeneratingAt \cup {"lock", "remove"}
    PROVE  boot = "up" /\ gen[r].agent \in Agents /\ gen[r].pair \in Nat
  BY DEF StoreInv, StoreTypes, GenRecord, GenConsistent, GeneratingAt

\* GenerateAgentCertIfNotExists finds no files, and makes them under the mutex.
LEMMA LockInv ==
    ASSUME BootInv, StoreInv, NEW r \in Requests, GenerateAgentCertIfNotExists(r)
    PROVE  StoreInv'
  <1>1. PICK a \in Agents : gen[r].agent = a
    BY AtWork DEF GenerateAgentCertIfNotExists
  <1>2. /\ gen[r].pc = "lock" /\ gen[r].op = "provision" /\ agentCertMu = NoRequest
        /\ boot = "up" /\ UNCHANGED <<bootVars, agentFile, dirs>>
    BY AtWork DEF GenerateAgentCertIfNotExists, StoreInv, GenConsistent
  <1>3. CASE AgentCertExists(a)
    <2>. DEFINE q == [gen[r] EXCEPT !.pc = "exists"]
    <2>1. /\ gen' = [gen EXCEPT ![r] = q] /\ dirs' \subseteq Agents
          /\ UNCHANGED <<agentCertMu, disturbed>>
      BY <1>1, <1>2, <1>3 DEF GenerateAgentCertIfNotExists, Goto, StoreInv, StoreTypes
    <2>2. q \in GenRecord /\ q.pc = "exists" /\ q.agent = a
      BY <1>1 DEF StoreInv, StoreTypes, GenRecord
    <2>. HIDE DEF q
    <2>. QED
      BY <1>2, <2>1, <2>2, WaitingInv DEF GeneratingAt
  <1>4. CASE ~AgentCertExists(a)
    <2>1. /\ gen' = [gen EXCEPT ![r].pc = "load"] /\ agentCertMu' = r
          /\ disturbed' = disturbed \cup
                (IF \E s \in Generating(a) : gen[s].op = "create" THEN {a} ELSE {})
      BY <1>1, <1>4 DEF GenerateAgentCertIfNotExists, Goto
    <2>2. /\ gen'[r].pc = "load" /\ gen'[r].op = "provision" /\ gen'[r].agent = a
          /\ \A s \in Requests : s # r => gen'[s] = gen[s]
          /\ gen' \in [Requests -> GenRecord]
      BY <1>1, <1>2, <2>1, SMT DEF StoreInv, StoreTypes, GenRecord
    <2>3. \A s \in Requests : ~(gen[s].op = "provision" /\ gen[s].pc \in GeneratingAt)
      BY <1>2, CertAssumption DEF StoreInv, MutexConsistent
    <2>4. StoreTypes' /\ SignedConsistent'
      BY <1>2, <2>1, <2>2, SMT
         DEF StoreInv, StoreTypes, SignedConsistent, SignedBy, bootVars
    <2>5. GenConsistent' /\ MutexConsistent'
      BY <1>2, <2>1, <2>2, <2>3
         DEF StoreInv, GenConsistent, MutexConsistent, bootVars, GeneratingAt
    <2>6. ASSUME NEW b \in Agents, b # a
          PROVE  b \notin disturbed' => PairConsistent(b)'
      <3>1. b \notin disturbed' => b \notin disturbed
        BY <2>1, <2>6 DEF StoreInv, StoreTypes
      <3>. QED
        BY <1>1, <1>2, <2>2, <2>6, <3>1, OtherAgents DEF StoreInv, AgentsConsistent
    <2>7. ASSUME a \notin disturbed' PROVE PairConsistent(a)'
      <3>1. PairConsistent(a)
        BY <2>1, <2>7 DEF StoreInv, AgentsConsistent
      <3>2. Generating(a) = {}
        <4>1. \A s \in Generating(a) : gen[s].op # "create"
          BY <2>1, <2>7
        <4>. QED
          BY <2>3, <4>1 DEF StoreInv, GenConsistent, Generating
      <3>3. Generating(a)' = {r}
        BY <1>1, <2>2, <3>2 DEF Generating, GeneratingAt
      <3>4. agentFile[a].key = NoFile
        BY <1>4, <3>1 DEF PairConsistent, AgentCertExists
      <3>. QED
        BY <1>2, <2>2, <3>1, <3>3, <3>4 DEF PairConsistent
    <2>. QED
      BY <2>4, <2>5, <2>6, <2>7 DEF StoreInv, AgentsConsistent
  <1>. QED
    BY <1>3, <1>4

\* One of an agent's two files is written.
LEMMA CertWritten ==
    ASSUME StoreTypes, NEW a \in Agents, NEW c \in FileRecord,
           agentFile' = [agentFile EXCEPT ![a].cert = c]
    PROVE  /\ agentFile' \in [Agents -> PairRecord]
           /\ agentFile'[a].cert = c /\ agentFile'[a].key = agentFile[a].key
           /\ \A b \in Agents : b # a => agentFile'[b] = agentFile[b]
  BY DEF StoreTypes, PairRecord

LEMMA KeyWritten ==
    ASSUME StoreTypes, NEW a \in Agents, NEW c \in FileRecord,
           agentFile' = [agentFile EXCEPT ![a].key = c]
    PROVE  /\ agentFile' \in [Agents -> PairRecord]
           /\ agentFile'[a].key = c /\ agentFile'[a].cert = agentFile[a].cert
           /\ \A b \in Agents : b # a => agentFile'[b] = agentFile[b]
  BY DEF StoreTypes, PairRecord

\* A request goes on to another place, with another pair in hand or not.
LEMMA RequestGoes ==
    ASSUME StoreTypes, NEW r \in Requests, NEW n \in Nat,
           NEW pc \in {"load", "certOpen", "key", "keyOpen", "keyLost", "created", "failed"},
           \/ gen' = [gen EXCEPT ![r].pc = pc] /\ n = gen[r].pair
           \/ gen' = [gen EXCEPT ![r].pair = n, ![r].pc = pc]
           \/ gen' = [gen EXCEPT ![r].pc = pc, ![r].pair = n]
    PROVE  /\ gen' \in [Requests -> GenRecord]
           /\ gen'[r].pc = pc /\ gen'[r].op = gen[r].op
           /\ gen'[r].agent = gen[r].agent /\ gen'[r].pair = n
           /\ \A s \in Requests : s # r => gen'[s] = gen[s]
  BY SMT DEF StoreTypes, GenRecord

\* The steps of GenerateAgentCert up to the last write.  What request r does next,
\* and what it writes to the files of its agent.
LEMMA WritesEffect ==
    ASSUME BootInv, StoreInv, NEW r \in Requests, NEW a \in Agents, gen[r].agent = a,
           GenerateCert(r) \/ GenerateWriteCert(r) \/ GenerateOpenKey(r)
    PROVE  /\ boot = "up" /\ UNCHANGED <<bootVars, agentCertMu, disturbed>>
           /\ dirs' \subseteq Agents
           /\ \A s \in Requests : s # r => gen'[s] = gen[s]
           /\ gen'[r].agent = a /\ gen'[r].op = gen[r].op /\ gen' \in [Requests -> GenRecord]
           /\ agentFile' \in [Agents -> PairRecord]
           /\ \A b \in Agents : b # a => agentFile'[b] = agentFile[b]
           /\ \/ /\ gen[r].pc = "load" /\ gen'[r].pc = "certOpen"
                 /\ agentFile'[a].cert = Torn /\ agentFile'[a].key = agentFile[a].key
              \/ /\ gen[r].pc = "certOpen" /\ gen'[r].pc = "key"
                 /\ agentFile'[a].cert = Cert(gen'[r].pair, file["caCert"].pair)
                 /\ agentFile'[a].key = agentFile[a].key
              \/ /\ gen[r].pc = "key" /\ gen'[r].pc = "keyOpen" /\ gen'[r].pair = gen[r].pair
                 /\ agentFile'[a].cert = agentFile[a].cert /\ agentFile'[a].key = Torn
  <1>1. boot = "up" /\ gen[r].pair \in Nat /\ StoreTypes /\ dirs \subseteq Agents
    BY AtWork DEF StoreInv, StoreTypes, GenerateCert, GenerateWriteCert, GenerateOpenKey,
                  GeneratingAt
  <1>2. CASE GenerateCert(r)
    <2>1. PICK n \in Pairs : gen' = [gen EXCEPT ![r].pair = n, ![r].pc = "certOpen"]
      BY <1>2 DEF GenerateCert
    <2>2. n \in Nat
      BY CertAssumption, SMT DEF Pairs
    <2>3. /\ agentFile' = [agentFile EXCEPT ![a].cert = Torn] /\ dirs' = dirs \cup {a}
          /\ gen[r].pc = "load" /\ UNCHANGED <<bootVars, agentCertMu, disturbed>>
      BY <1>2 DEF GenerateCert
    <2>4. /\ gen' \in [Requests -> GenRecord] /\ gen'[r].pc = "certOpen"
          /\ gen'[r].op = gen[r].op /\ gen'[r].agent = a
          /\ \A s \in Requests : s # r => gen'[s] = gen[s]
      BY <1>1, <2>1, <2>2, RequestGoes
    <2>. QED
      BY <1>1, <2>3, <2>4, CertWritten, FileFacts, ZenonT(30)
  <1>3. CASE GenerateWriteCert(r)
    <2>. DEFINE c == Cert(gen[r].pair, file["caCert"].pair)
    <2>1. c \in FileRecord
      <3>1. file["caCert"].pair \in Nat
        BY DEF BootInv, BootTypes, FileRecord, Files
      <3>. QED
        BY <1>1, <3>1, FileFacts
    <2>2. /\ agentFile' = [agentFile EXCEPT ![a].cert = c]
          /\ gen[r].pc = "certOpen" /\ gen' = [gen EXCEPT ![r].pc = "key"]
          /\ UNCHANGED <<bootVars, dirs, agentCertMu, disturbed>>
      BY <1>3 DEF GenerateWriteCert, Goto
    <2>3. /\ gen' \in [Requests -> GenRecord] /\ gen'[r].pc = "key"
          /\ gen'[r].op = gen[r].op /\ gen'[r].agent = a /\ gen'[r].pair = gen[r].pair
          /\ \A s \in Requests : s # r => gen'[s] = gen[s]
      BY <1>1, <2>2, RequestGoes, ZenonT(30)
    <2>4. c = Cert(gen'[r].pair, file["caCert"].pair)
      BY <2>3
    <2>. HIDE DEF c
    <2>. QED
      BY <1>1, <2>1, <2>2, <2>3, <2>4, CertWritten, ZenonT(30)
  <1>4. CASE GenerateOpenKey(r)
    <2>1. /\ agentFile' = [agentFile EXCEPT ![a].key = Torn]
          /\ gen[r].pc = "key" /\ gen' = [gen EXCEPT ![r].pc = "keyOpen"]
          /\ UNCHANGED <<bootVars, dirs, agentCertMu, disturbed>>
      BY <1>4 DEF GenerateOpenKey, Goto
    <2>2. /\ gen' \in [Requests -> GenRecord] /\ gen'[r].pc = "keyOpen"
          /\ gen'[r].op = gen[r].op /\ gen'[r].agent = a /\ gen'[r].pair = gen[r].pair
          /\ \A s \in Requests : s # r => gen'[s] = gen[s]
      BY <1>1, <2>1, RequestGoes, ZenonT(30)
    <2>. QED
      BY <1>1, <2>1, <2>2, KeyWritten, FileFacts
  <1>. QED
    BY <1>2, <1>3, <1>4

\* The files of an agent are written by one request at a time, or are disturbed.
LEMMA WritesInv ==
    ASSUME BootInv, StoreInv, NEW r \in Requests,
           GenerateCert(r) \/ GenerateWriteCert(r) \/ GenerateOpenKey(r)
    PROVE  StoreInv'
  <1>1. PICK a \in Agents : gen[r].agent = a
    BY AtWork DEF GenerateCert, GenerateWriteCert, GenerateOpenKey, GeneratingAt
  <1>2. /\ boot = "up" /\ UNCHANGED <<bootVars, agentCertMu, disturbed>>
        /\ dirs' \subseteq Agents
        /\ \A s \in Requests : s # r => gen'[s] = gen[s]
        /\ gen'[r].agent = a /\ gen'[r].op = gen[r].op /\ gen' \in [Requests -> GenRecord]
        /\ agentFile' \in [Agents -> PairRecord]
        /\ \A b \in Agents : b # a => agentFile'[b] = agentFile[b]
    BY <1>1, WritesEffect
  <1>3. \/ /\ gen[r].pc = "load" /\ gen'[r].pc = "certOpen"
           /\ agentFile'[a].cert = Torn /\ agentFile'[a].key = agentFile[a].key
        \/ /\ gen[r].pc = "certOpen" /\ gen'[r].pc = "key"
           /\ agentFile'[a].cert = Cert(gen'[r].pair, file["caCert"].pair)
           /\ agentFile'[a].key = agentFile[a].key
        \/ /\ gen[r].pc = "key" /\ gen'[r].pc = "keyOpen" /\ gen'[r].pair = gen[r].pair
           /\ agentFile'[a].cert = agentFile[a].cert /\ agentFile'[a].key = Torn
    BY <1>1, WritesEffect, SMT
  <1>4. gen'[r].pair \in Nat /\ file["caCert"].pair \in Nat /\ file["caKey"].state = "whole"
    BY <1>2 DEF GenRecord, BootInv, BootTypes, CAConsistent, FileRecord, Files
  <1>5. /\ Cert(gen'[r].pair, file["caCert"].pair).state = "whole"
        /\ Cert(gen'[r].pair, file["caCert"].pair).pair = gen'[r].pair
        /\ Cert(gen'[r].pair, file["caCert"].pair).signer = file["caCert"].pair
    BY <1>4, FileFacts
  <1>6. gen[r].pc \in GeneratingAt /\ gen'[r].pc \in GeneratingAt
    BY <1>3 DEF GeneratingAt
  <1>7. StoreTypes'
    BY <1>2 DEF StoreInv, StoreTypes
  <1>8. SignedConsistent'
    <2>1. SignedBy(agentFile[a].cert)'
      BY <1>2, <1>3, <1>4, <1>5, FileFacts, SMT
         DEF StoreInv, SignedConsistent, SignedBy, bootVars
    <2>. QED
      BY <1>2, <2>1 DEF StoreInv, SignedConsistent, SignedBy, bootVars
  <1>9. GenConsistent' /\ MutexConsistent'
    BY <1>1, <1>2, <1>3, <1>6, SMT
       DEF StoreInv, GenConsistent, MutexConsistent, bootVars, GeneratingAt
  <1>10. ASSUME NEW b \in Agents, b # a
         PROVE  b \notin disturbed' => PairConsistent(b)'
    BY <1>1, <1>2, <1>10, OtherAgents DEF StoreInv, AgentsConsistent
  <1>11. ASSUME a \notin disturbed' PROVE PairConsistent(a)'
    <2>1. PairConsistent(a)
      BY <1>2, <1>11 DEF StoreInv, AgentsConsistent
    <2>2. Generating(a) = {r} /\ Generating(a)' = {r}
      <3>1. r \in Generating(a) /\ \A s \in Generating(a) : s = r
        BY <1>1, <1>6, <2>1 DEF PairConsistent, Generating
      <3>. QED
        BY <1>2, <1>6, <3>1 DEF Generating
    <2>. QED
      BY <1>3, <1>5, <2>1, <2>2, FileFacts, SMT DEF PairConsistent
  <1>. QED
    BY <1>7, <1>8, <1>9, <1>10, <1>11 DEF StoreInv, AgentsConsistent

\* GenerateAgentCert returns, with the key written, lost, or an error.
LEMMA EndsEffect ==
    ASSUME StoreInv, NEW r \in Requests, NEW a \in Agents, gen[r].agent = a,
           GenerateWriteKey(r) \/ GenerateWriteLost(r) \/ GenerateFails(r)
    PROVE  /\ UNCHANGED <<bootVars, dirs, disturbed>> /\ agentCertMu' = Unlocked(r)
           /\ boot = "up" /\ gen[r].pc \in GeneratingAt
           /\ \A s \in Requests : s # r => gen'[s] = gen[s]
           /\ gen'[r].pc \in {"created", "failed"} /\ gen'[r].agent = a
           /\ gen' \in [Requests -> GenRecord]
           /\ agentFile' \in [Agents -> PairRecord] /\ agentFile'[a].cert = agentFile[a].cert
           /\ \A b \in Agents : b # a => agentFile'[b] = agentFile[b]
           /\ \/ gen[r].pc = "keyOpen" /\ agentFile'[a].key = KeyOf(gen[r].pair)
              \/ agentFile'[a].key = agentFile[a].key
  <1>1. /\ boot = "up" /\ gen[r].pair \in Nat /\ StoreTypes /\ gen[r].pc \in GeneratingAt
        /\ agentFile \in [Agents -> PairRecord]
    BY AtWork DEF StoreInv, StoreTypes, GenerateWriteKey, GenerateWriteLost, GenerateFails,
                  GeneratingAt
  <1>2. PICK pc \in {"created", "failed"} : gen' = [gen EXCEPT ![r].pc = pc, ![r].pair = 0]
    BY DEF GenerateWriteKey, GenerateWriteLost, GenerateFails
  <1>3. /\ gen' \in [Requests -> GenRecord] /\ gen'[r].pc \in {"created", "failed"}
        /\ gen'[r].agent = a /\ \A s \in Requests : s # r => gen'[s] = gen[s]
    <2>1. /\ pc \in {"load", "certOpen", "key", "keyOpen", "keyLost", "created", "failed"}
          /\ 0 \in Nat
      OBVIOUS
    <2>. QED
      BY <1>1, <1>2, <2>1, RequestGoes
  <1>4. CASE GenerateWriteKey(r)
    <2>1. /\ gen[r].pc = "keyOpen" /\ agentCertMu' = Unlocked(r)
          /\ agentFile' = [agentFile EXCEPT ![a].key = KeyOf(gen[r].pair)]
          /\ UNCHANGED <<bootVars, dirs, disturbed>>
      BY <1>4 DEF GenerateWriteKey
    <2>2. KeyOf(gen[r].pair) \in FileRecord
      BY <1>1, FileFacts
    <2>. QED
      BY <1>1, <1>3, <2>1, <2>2, KeyWritten
  <1>5. CASE GenerateWriteLost(r)
    BY <1>1, <1>3, <1>5 DEF GenerateWriteLost
  <1>6. CASE GenerateFails(r)
    <2>1. /\ UNCHANGED <<bootVars, agentFile, dirs, disturbed>> /\ agentCertMu' = Unlocked(r)
      BY <1>6 DEF GenerateFails
    <2>. QED
      BY <1>1, <1>3, <2>1
  <1>. QED
    BY <1>4, <1>5, <1>6

LEMMA EndsInv ==
    ASSUME BootInv, StoreInv, NEW r \in Requests,
           GenerateWriteKey(r) \/ GenerateWriteLost(r) \/ GenerateFails(r)
    PROVE  StoreInv'
  <1>1. PICK a \in Agents : gen[r].agent = a
    BY AtWork DEF GenerateWriteKey, GenerateWriteLost, GenerateFails, GeneratingAt
  <1>2. /\ UNCHANGED <<bootVars, dirs, disturbed>> /\ agentCertMu' = Unlocked(r)
        /\ boot = "up" /\ gen[r].pc \in GeneratingAt
        /\ \A s \in Requests : s # r => gen'[s] = gen[s]
        /\ gen'[r].pc \in {"created", "failed"} /\ gen'[r].agent = a
        /\ gen' \in [Requests -> GenRecord]
        /\ agentFile' \in [Agents -> PairRecord] /\ agentFile'[a].cert = agentFile[a].cert
        /\ \A b \in Agents : b # a => agentFile'[b] = agentFile[b]
    BY <1>1, EndsEffect, SMT
  <1>3. \/ gen[r].pc = "keyOpen" /\ agentFile'[a].key = KeyOf(gen[r].pair)
        \/ agentFile'[a].key = agentFile[a].key
    BY <1>1, EndsEffect
  <1>4. KeyOf(gen[r].pair).state = "whole" /\ KeyOf(gen[r].pair).pair = gen[r].pair
    BY <1>2, AtWork, FileFacts
  <1>5. StoreTypes' /\ SignedConsistent'
    <2>1. agentCertMu' \in Requests \cup {NoRequest}
      BY <1>2 DEF Unlocked, StoreInv, StoreTypes
    <2>2. \A b \in Agents : agentFile'[b].cert = agentFile[b].cert
      BY <1>2
    <2>. QED
      BY <1>2, <2>1, <2>2, SMT DEF StoreInv, StoreTypes, SignedConsistent, SignedBy, bootVars
  <1>6. GenConsistent'
    BY <1>2, SMT DEF StoreInv, GenConsistent, bootVars, GeneratingAt
  <1>7. MutexConsistent'
    BY <1>2, CertAssumption, SMT DEF StoreInv, MutexConsistent, Unlocked, GeneratingAt
  <1>8. ASSUME NEW b \in Agents, b # a
        PROVE  b \notin disturbed' => PairConsistent(b)'
    BY <1>1, <1>2, <1>8, OtherAgents DEF StoreInv, AgentsConsistent
  <1>9. ASSUME a \notin disturbed' PROVE PairConsistent(a)'
    <2>1. PairConsistent(a)
      BY <1>2, <1>9 DEF StoreInv, AgentsConsistent
    <2>2. r \in Generating(a) /\ Generating(a)' = {}
      <3>1. r \in Generating(a) /\ \A s \in Generating(a) : s = r
        BY <1>1, <1>2, <2>1, ZenonT(30) DEF PairConsistent, Generating
      <3>. QED
        BY <1>2, <3>1, SMT DEF Generating, GeneratingAt
    <2>. QED
      BY <1>2, <1>3, <1>4, <2>1, <2>2, FileFacts, SMT DEF PairConsistent
  <1>. QED
    BY <1>5, <1>6, <1>7, <1>8, <1>9 DEF StoreInv, AgentsConsistent

\* A request that has a removed file open goes on writing; the others do not notice.
LEMMA UnlinkFacts ==
    ASSUME StoreTypes, NEW s \in Requests, NEW a \in Agents, NEW f \in {"cert", "key"}
    PROVE  /\ AfterUnlink(s, a, f) \in GenRecord
           /\ AfterUnlink(s, a, f).op = gen[s].op /\ AfterUnlink(s, a, f).agent = gen[s].agent
           /\ AfterUnlink(s, a, f).pc \in GeneratingAt <=> gen[s].pc \in GeneratingAt
           /\ gen[s].pc \notin GeneratingAt \/ gen[s].agent # a
                 => AfterUnlink(s, a, f) = gen[s]
  <1>1. /\ gen[s] \in GenRecord
        /\ [gen[s] EXCEPT !.pc = "key"] =
              [pc |-> "key", op |-> gen[s].op, agent |-> gen[s].agent, pair |-> gen[s].pair]
        /\ [gen[s] EXCEPT !.pc = "keyLost"] =
              [pc |-> "keyLost", op |-> gen[s].op, agent |-> gen[s].agent,
               pair |-> gen[s].pair]
    BY SMT DEF StoreTypes, GenRecord
  <1>2. CASE gen[s].agent = a /\ f = "cert" /\ gen[s].pc = "certOpen"
    <2>1. AfterUnlink(s, a, f) = [gen[s] EXCEPT !.pc = "key"]
      BY <1>2 DEF AfterUnlink
    <2>. QED
      BY <1>1, <1>2, <2>1 DEF GenRecord, GeneratingAt
  <1>3. CASE gen[s].agent = a /\ f = "key" /\ gen[s].pc = "keyOpen"
    <2>1. AfterUnlink(s, a, f) = [gen[s] EXCEPT !.pc = "keyLost"]
      BY <1>3 DEF AfterUnlink
    <2>. QED
      BY <1>1, <1>3, <2>1 DEF GenRecord, GeneratingAt
  <1>4. CASE /\ ~(gen[s].agent = a /\ f = "cert" /\ gen[s].pc = "certOpen")
             /\ ~(gen[s].agent = a /\ f = "key" /\ gen[s].pc = "keyOpen")
    <2>1. AfterUnlink(s, a, f) = gen[s]
      BY <1>4 DEF AfterUnlink
    <2>. QED
      BY <1>1, <2>1
  <1>. QED
    BY <1>2, <1>3, <1>4

\* A file is removed: its agent is disturbed.
LEMMA RemoveFileInv ==
    ASSUME BootInv, StoreInv, NEW r \in Requests, RemoveFile(r)
    PROVE  StoreInv'
  <1>1. PICK a \in Agents : gen[r].agent = a
    BY AtWork DEF RemoveFile
  <1>2. PICK f \in {"cert", "key"} :
           /\ agentFile' = [agentFile EXCEPT ![a][f] = NoFile]
           /\ gen' = [s \in Requests |-> AfterUnlink(s, a, f)]
           /\ disturbed' = disturbed \cup {a}
    BY <1>1 DEF RemoveFile
  <1>3. UNCHANGED <<bootVars, dirs, agentCertMu>> /\ gen[r].pc = "remove" /\ StoreTypes
    BY DEF RemoveFile, StoreInv
  <1>4. /\ agentFile' \in [Agents -> PairRecord]
        /\ agentFile'[a].cert = agentFile[a].cert \/ agentFile'[a].cert = NoFile
        /\ \A b \in Agents : b # a => agentFile'[b] = agentFile[b]
    <2>1. CASE f = "cert"
      <3>1. agentFile' = [agentFile EXCEPT ![a].cert = NoFile]
        BY <1>2, <2>1
      <3>. QED
        BY <1>3, <3>1, CertWritten, FileFacts
    <2>2. CASE f = "key"
      <3>1. agentFile' = [agentFile EXCEPT ![a].key = NoFile]
        BY <1>2, <2>2, ZenonT(30)
      <3>. QED
        BY <1>3, <3>1, KeyWritten, FileFacts
    <2>. QED
      BY <2>1, <2>2
  <1>5. \A s \in Requests :
           /\ gen'[s] \in GenRecord /\ gen'[s].op = gen[s].op /\ gen'[s].agent = gen[s].agent
           /\ gen'[s].pc \in GeneratingAt <=> gen[s].pc \in GeneratingAt
           /\ gen[s].pc \notin GeneratingAt \/ gen[s].agent # a => gen'[s] = gen[s]
    BY <1>2, <1>3, UnlinkFacts
  <1>6. gen' \in [Requests -> GenRecord]
    BY <1>2, <1>5
  <1>7. StoreTypes'
    BY <1>2, <1>3, <1>4, <1>6 DEF StoreTypes
  <1>8. SignedConsistent'
    <2>1. SignedBy(agentFile[a].cert)'
      BY <1>3, <1>4, FileFacts, SMT DEF StoreInv, SignedConsistent, SignedBy, bootVars
    <2>. QED
      BY <1>3, <1>4, <2>1 DEF StoreInv, SignedConsistent, SignedBy, bootVars
  <1>9. GenConsistent' /\ MutexConsistent'
    BY <1>3, <1>5, SMT DEF StoreInv, GenConsistent, MutexConsistent, bootVars, GeneratingAt
  <1>10. ASSUME NEW b \in Agents, b # a
         PROVE  b \notin disturbed' => PairConsistent(b)'
    BY <1>2, <1>4, <1>5, <1>10, OtherAgents, SMT DEF StoreInv, AgentsConsistent
  <1>. QED
    BY <1>2, <1>7, <1>8, <1>9, <1>10 DEF StoreInv, AgentsConsistent

\* A deletion or a creation returns.
LEMMA ReturnsInv ==
    ASSUME BootInv, StoreInv, NEW r \in Requests, RemoveDir(r) \/ CreateReturns(r)
    PROVE  StoreInv'
  <1>1. /\ gen' = [gen EXCEPT ![r] = IdleGen] /\ gen[r].pc \notin GeneratingAt
        /\ UNCHANGED <<bootVars, agentFile, agentCertMu>>
    BY DEF RemoveDir, CreateReturns, GeneratingAt
  <1>2. IdleGen \in GenRecord /\ IdleGen.pc = "none"
    BY DEF IdleGen, GenRecord
  <1>3. /\ dirs' \subseteq Agents /\ disturbed' \subseteq disturbed
        /\ \A a \in disturbed \ disturbed' :
              /\ agentFile[a].cert = NoFile /\ agentFile[a].key = NoFile
              /\ Generating(a) = {}
    <2>1. CASE RemoveDir(r)
      <3>1. gen[r].agent \in Agents /\ gen[r].agent \in Agents
        BY <2>1, AtWork DEF RemoveDir
      <3>2. agentFile[gen[r].agent] = [cert |-> NoFile, key |-> NoFile] =>
               agentFile[gen[r].agent].cert = NoFile /\ agentFile[gen[r].agent].key = NoFile
        BY SMT
      <3>. QED
        BY <2>1, <3>1, <3>2 DEF RemoveDir, StoreInv, StoreTypes
    <2>2. CASE CreateReturns(r)
      BY <2>2 DEF CreateReturns, StoreInv, StoreTypes
    <2>. QED
      BY <2>1, <2>2
  <1>. QED
    BY <1>1, <1>2, <1>3, WaitingInv, ZenonT(30) DEF GeneratingAt

-----------------------------------------------------------------------------
\* The start of the process works on its own files, and no request is under way.
LEMMA BootInvStep ==
    ASSUME BootInv, StoreInv, Boot
    PROVE  BootInv' /\ StoreInv'
  <1>1. BootInv'
    BY BootLooks, BootTears, BootFills DEF Boot, BootInv, BootTypes
  <1>2. boot # "up" /\ UNCHANGED agentVars
    BY DEF Boot, BootCA, BootServer, BootWrite, BootInv, BootTypes, Files
  <1>3. \A s \in Requests : gen[s].pc = "none"
    BY <1>2 DEF StoreInv, GenConsistent
  <1>4. StoreTypes' /\ GenConsistent' /\ MutexConsistent'
    BY <1>2, <1>3 DEF StoreInv, StoreTypes, GenConsistent, MutexConsistent, agentVars
  <1>5. AgentsConsistent'
    BY <1>2, SMT DEF StoreInv, AgentsConsistent, PairConsistent, Generating, agentVars
  <1>6. SignedConsistent'
    <2>1. CASE BootCA \/ BootServer
      BY <1>2, <2>1 DEF BootCA, BootServer, StoreInv, SignedConsistent, SignedBy, agentVars
    <2>2. ASSUME NEW p \in Files, BootWrite(p) PROVE SignedConsistent'
      <3>1. /\ boot = p /\ \A q \in Files : q # p => file'[q] = file[q]
            /\ file'[p] = IF file[p] # Torn THEN Torn ELSE Contents(p)
        BY <2>2 DEF BootWrite, BootInv, BootTypes
      <3>2. made \in Nat /\ file["caCert"].pair \in Nat
        BY DEF BootInv, BootTypes, FileRecord, Files
      <3>3. CASE p \in {"caCert", "caKey"}
        <4>1. file["caKey"].state # "whole"
          BY <3>1, <3>3, FileFacts DEF BootInv, CAConsistent
        <4>2. file'["srvCert"] = file["srvCert"]
          BY <3>1, <3>3 DEF Files
        <4>. QED
          BY <1>2, <4>1, <4>2 DEF StoreInv, SignedConsistent, SignedBy, agentVars
      <3>4. CASE p = "srvCert"
        <4>1. /\ file["caKey"].state = "whole" /\ file'["caKey"] = file["caKey"]
              /\ file'["caCert"] = file["caCert"]
          BY <3>1, <3>4 DEF BootInv, CAConsistent, Files
        <4>2. file'["srvCert"].state = "whole" =>
                 file'["srvCert"].signer = file["caCert"].pair
          BY <3>1, <3>2, <3>4, FileFacts, WriteFacts, SMT
        <4>. QED
          BY <1>2, <4>1, <4>2 DEF StoreInv, SignedConsistent, SignedBy, agentVars
      <3>5. CASE p = "srvKey"
        BY <1>2, <3>1, <3>5 DEF StoreInv, SignedConsistent, SignedBy, agentVars, Files
      <3>. QED
        BY <3>3, <3>4, <3>5 DEF Files
    <2>. QED
      BY <2>1, <2>2 DEF Boot, BootInv, BootTypes
  <1>. QED
    BY <1>1, <1>4, <1>5, <1>6 DEF StoreInv

\* The process ends: what was on disk stays.
LEMMA CrashStoreInv ==
    ASSUME BootInv, StoreInv, CrashStore
    PROVE  BootInv' /\ StoreInv'
  <1>1. /\ boot' = "down" /\ made' = 0 /\ agentCertMu' = NoRequest
        /\ UNCHANGED <<file, agentFile, dirs, disturbed>>
        /\ gen' = [s \in Requests |-> IdleGen]
    BY DEF CrashStore
  <1>2. BootInv'
    BY <1>1 DEF BootInv, BootTypes, CAConsistent, ServerConsistent
  <1>3. IdleGen \in GenRecord /\ IdleGen.pc = "none" /\ IdleGen.op = "none"
    BY DEF IdleGen, GenRecord
  <1>4. StoreTypes' /\ SignedConsistent'
    BY <1>1, <1>3 DEF StoreInv, StoreTypes, SignedConsistent, SignedBy
  <1>5. GenConsistent' /\ MutexConsistent'
    BY <1>1, <1>3, CertAssumption DEF GenConsistent, MutexConsistent, GeneratingAt
  <1>6. ASSUME NEW a \in Agents
        PROVE  a \notin disturbed' => PairConsistent(a)'
    <2>1. Generating(a)' = {}
      BY <1>1, <1>3 DEF Generating, GeneratingAt
    <2>. QED
      BY <1>1, <2>1 DEF StoreInv, AgentsConsistent, PairConsistent
  <1>. QED
    BY <1>2, <1>4, <1>5, <1>6 DEF StoreInv, AgentsConsistent

\* Every step of a request on the files keeps the files consistent.
LEMMA StoreStepInv ==
    ASSUME BootInv, StoreInv, NEW r \in Requests, GenerateStep(r) \/ AdminStep(r)
    PROVE  BootInv' /\ StoreInv'
  <1>1. UNCHANGED bootVars
    BY ZenonT(30) DEF GenerateStep, AdminStep, GenerateAgentCertIfNotExists, GenerateCert,
           GenerateWriteCert, GenerateOpenKey, GenerateWriteKey, GenerateWriteLost,
           GenerateFails, CreateReturns, RemoveFile, RemoveDir
  <1>2. BootInv'
    BY <1>1 DEF bootVars, BootInv, BootTypes, CAConsistent, ServerConsistent
  <1>. QED
    BY <1>2, LockInv, WritesInv, EndsInv, RemoveFileInv, ReturnsInv DEF GenerateStep, AdminStep

-----------------------------------------------------------------------------
\* The inductive invariant.
ProvInv == BootInv /\ StoreInv /\ KeyTypes /\ ReqConsistent

\* A step on the keys alone leaves the files as they are.
LEMMA StoreUnchanged ==
    ASSUME BootInv, StoreInv, UNCHANGED storeVars
    PROVE  BootInv' /\ StoreInv'
  <1>. USE DEF storeVars
  <1>1. BootInv'
    BY DEF BootInv, BootTypes, CAConsistent, ServerConsistent
  <1>2. StoreTypes' /\ SignedConsistent' /\ GenConsistent' /\ MutexConsistent'
    BY DEF StoreInv, StoreTypes, SignedConsistent, SignedBy, GenConsistent, MutexConsistent
  <1>3. AgentsConsistent'
    BY SMT DEF StoreInv, AgentsConsistent, PairConsistent, Generating
  <1>. QED
    BY <1>1, <1>2, <1>3 DEF StoreInv

\* The key store changes: a key that a request holds keeps its agent.
LEMMA KeysChange ==
    ASSUME ProvInv,
           \/ \E k \in Keys : Expire(k) \/ \E a \in Agents : Create(k, a)
           \/ \E a \in Agents : Revoke(a)
           \/ Cleanup
    PROVE  ProvInv'
  <1>1. UNCHANGED <<storeVars, req>>
    BY DEF Expire, Create, Revoke, Cleanup
  <1>2. NoKey \in KeyRecord /\ ~NoKey.stored
    BY DEF NoKey, KeyRecord
  <1>3. /\ keys' \in [Keys -> KeyRecord]
        /\ \A k \in Keys : keys'[k].stored => keys'[k].agent \in Agents
        /\ \A k \in Keys : Held(k) => keys'[k].agent = keys[k].agent
    <2>1. /\ keys \in [Keys -> KeyRecord]
          /\ \A k \in Keys : keys[k].stored => keys[k].agent \in Agents
      BY DEF ProvInv, KeyTypes
    <2>2. ASSUME NEW k \in Keys, Expire(k)
          PROVE  /\ keys' \in [Keys -> KeyRecord]
                 /\ \A j \in Keys : /\ keys'[j].agent = keys[j].agent
                                    /\ keys'[j].stored = keys[j].stored
      BY <2>1, <2>2 DEF Expire, KeyRecord
    <2>3. ASSUME NEW k \in Keys, NEW a \in Agents, Create(k, a)
          PROVE  /\ keys' \in [Keys -> KeyRecord]
                 /\ \A j \in Keys : keys'[j].stored => keys'[j].agent \in Agents
                 /\ \A j \in Keys : Held(j) => keys'[j].agent = keys[j].agent
      <3>. DEFINE n == [NoKey EXCEPT !.stored = TRUE, !.agent = a]
      <3>1. n \in KeyRecord /\ n.agent = a
        BY DEF NoKey, KeyRecord
      <3>2. keys' = [keys EXCEPT ![k] = n] /\ ~Held(k)
        BY <2>3 DEF Create
      <3>. HIDE DEF n
      <3>. QED
        BY <2>1, <3>1, <3>2
    <2>4. ASSUME NEW S \in SUBSET Keys, keys' = Without(S)
          PROVE  /\ keys' \in [Keys -> KeyRecord]
                 /\ \A j \in Keys : keys'[j].stored => keys'[j].agent \in Agents
                 /\ \A j \in Keys : Held(j) => keys'[j].agent = keys[j].agent
      <3>1. \A k \in Keys : /\ [keys[k] EXCEPT !.stored = FALSE] \in KeyRecord
                            /\ [keys[k] EXCEPT !.stored = FALSE].agent = keys[k].agent
                            /\ ~[keys[k] EXCEPT !.stored = FALSE].stored
        BY <2>1 DEF KeyRecord
      <3>. QED
        BY <1>2, <2>1, <2>4, <3>1 DEF Without
    <2>5. ASSUME (\E a \in Agents : Revoke(a)) \/ Cleanup
          PROVE  \E S \in SUBSET Keys : keys' = Without(S)
      BY <2>5 DEF Revoke, Cleanup, Spent
    <2>. QED
      BY <2>1, <2>2, <2>3, <2>4, <2>5
  <1>4. BootInv' /\ StoreInv'
    BY <1>1, StoreUnchanged DEF ProvInv
  <1>5. \A q \in Requests : req[q].pc # "none" => Held(req[q].key)
    BY DEF Held
  <1>6. KeyTypes' /\ ReqConsistent'
    BY <1>1, <1>3, <1>5 DEF ProvInv, KeyTypes, ReqConsistent, storeVars
  <1>. QED
    BY <1>4, <1>6 DEF ProvInv

\* A request for Provision looks its key up, and marks it used at the end.
LEMMA KeyLooksInv ==
    ASSUME ProvInv, NEW r \in Requests, (\E k \in Keys : ValidateLookup(r, k)) \/ MarkUsed(r)
    PROVE  ProvInv'
  <1>1. UNCHANGED storeVars /\ BootInv' /\ StoreInv'
    BY StoreUnchanged DEF ValidateLookup, MarkUsed, ProvInv
  <1>2. /\ keys \in [Keys -> KeyRecord] /\ req \in [Requests -> ReqRecord]
        /\ \A k \in Keys : keys[k].stored => keys[k].agent \in Agents
    BY DEF ProvInv, KeyTypes
  <1>3. ASSUME NEW k \in Keys, ValidateLookup(r, k) PROVE KeyTypes' /\ ReqConsistent'
    <2>1. /\ boot = "up" /\ gen[r] = IdleGen /\ keys[k].stored /\ UNCHANGED keys
          /\ req' = [req EXCEPT ![r] = [pc |-> "check", key |-> k]]
      BY <1>3 DEF ValidateLookup
    <2>2. /\ req' \in [Requests -> ReqRecord] /\ req'[r].pc = "check" /\ req'[r].key = k
          /\ \A s \in Requests : s # r => req'[s] = req[s]
      BY <1>2, <2>1 DEF ReqRecord
    <2>. QED
      BY <1>1, <1>2, <2>1, <2>2 DEF ProvInv, KeyTypes, ReqConsistent, storeVars
  <1>4. CASE MarkUsed(r)
    <2>1. /\ req' = [req EXCEPT ![r] = IdleReq]
          /\ keys' = keys \/ keys' = [keys EXCEPT ![req[r].key].used = TRUE]
      BY <1>4 DEF MarkUsed
    <2>2. /\ req' \in [Requests -> ReqRecord] /\ req'[r].pc = "none"
          /\ \A s \in Requests : s # r => req'[s] = req[s]
      BY <1>2, <2>1 DEF ReqRecord, IdleReq
    <2>3. /\ keys' \in [Keys -> KeyRecord]
          /\ \A k \in Keys : keys'[k].agent = keys[k].agent /\ keys'[k].stored = keys[k].stored
      <3>1. PICK k \in Keys : k = req[r].key
        BY <1>4 DEF MarkUsed, ProvInv, ReqConsistent
      <3>. DEFINE m == [keys[k] EXCEPT !.used = TRUE]
      <3>2. m \in KeyRecord /\ m.agent = keys[k].agent /\ m.stored = keys[k].stored
        BY <1>2 DEF KeyRecord
      <3>3. keys' = keys \/ keys' = [keys EXCEPT ![k] = m]
        BY <2>1, <3>1
      <3>. HIDE DEF m
      <3>. QED
        BY <1>2, <3>2, <3>3
    <2>4. KeyTypes' /\ ReqConsistent'
      BY <1>1, <1>2, <2>2, <2>3, SMT DEF ProvInv, KeyTypes, ReqConsistent, storeVars
    <2>. QED
      BY <1>1, <2>4 DEF ProvInv
  <1>. QED
    BY <1>1, <1>3, <1>4 DEF ProvInv

\* A request for Provision calls GenerateAgentCertIfNotExists, and the call returns.
LEMMA GenerateCallInv ==
    ASSUME ProvInv, NEW r \in Requests, ValidateCheck(r) \/ Generated(r)
    PROVE  ProvInv'
  <1>1. /\ UNCHANGED <<bootVars, agentFile, dirs, agentCertMu, disturbed, keys>>
        /\ dirs' \subseteq Agents
    BY DEF ValidateCheck, Generated, ProvInv, StoreInv, StoreTypes
  <1>2. BootInv'
    BY <1>1 DEF ProvInv, BootInv, BootTypes, CAConsistent, ServerConsistent, bootVars
  <1>3. /\ req \in [Requests -> ReqRecord] /\ gen \in [Requests -> GenRecord]
        /\ IdleGen \in GenRecord /\ IdleGen.pc = "none" /\ IdleReq.pc = "none"
        /\ boot = "up" /\ gen[r].pc \notin GeneratingAt
    BY SMT DEF ProvInv, KeyTypes, StoreInv, StoreTypes, GenRecord, IdleGen, IdleReq,
           ValidateCheck, Generated, ReqConsistent, GeneratingAt
  <1>4. /\ req' \in [Requests -> ReqRecord] /\ req'[r].pc # "check"
        /\ req'[r].pc # "none" => req[r].pc # "none" /\ req'[r].key = req[r].key
        /\ \A s \in Requests : s # r => req'[s] = req[s]
    BY <1>3, SMT DEF ValidateCheck, Generated, ReqRecord, IdleReq
  <1>5. PICK q \in GenRecord :
           /\ gen' = [gen EXCEPT ![r] = q] /\ q.pc \in {"none", "lock"} \cup {gen[r].pc}
           /\ q.pc = "none" => q = IdleGen
           /\ q.pc # "none" => q.agent \in Agents
           /\ q.pc = "lock" => q.op = "provision"
           /\ q.pc = "remove" => q.op = "delete"
    <2>1. CASE gen' = gen
      <3>1. gen' = [gen EXCEPT ![r] = gen[r]] /\ gen[r] \in GenRecord
        BY <1>3, <2>1
      <3>. QED
        BY <3>1 DEF ProvInv, StoreInv, GenConsistent
    <2>2. CASE gen' = [gen EXCEPT ![r] = IdleGen]
      BY <1>3, <2>2
    <2>3. CASE ValidateCheck(r) /\ gen' # gen
      <3>. DEFINE a == keys[req[r].key].agent
                  q == [pc |-> "lock", op |-> "provision", agent |-> a, pair |-> 0]
      <3>1. gen' = [gen EXCEPT ![r] = q]
        BY <2>3 DEF ValidateCheck
      <3>2. a \in Agents
        BY <2>3 DEF ValidateCheck, ProvInv, ReqConsistent
      <3>3. q \in GenRecord /\ q.pc = "lock" /\ q.op = "provision" /\ q.agent \in Agents
        BY <3>2 DEF GenRecord
      <3>. HIDE DEF q
      <3>. QED
        BY <3>1, <3>3
    <2>. QED
      BY <2>1, <2>2, <2>3 DEF ValidateCheck, Generated
  <1>6. StoreInv'
    BY <1>1, <1>3, <1>5, WaitingInv, ZenonT(30) DEF ProvInv, GeneratingAt
  <1>7. \A s \in Requests : s # r => gen'[s] = gen[s]
    BY <1>3, <1>5
  <1>8. KeyTypes' /\ ReqConsistent'
    BY <1>1, <1>4, <1>7 DEF ProvInv, KeyTypes, ReqConsistent, bootVars
  <1>. QED
    BY <1>2, <1>6, <1>8 DEF ProvInv

\* A request that is not at the files stays away from them in a step of another.
LEMMA IdleStays ==
    ASSUME StoreInv, NEW r \in Requests, GenerateStep(r) \/ AdminStep(r)
    PROVE  \A s \in Requests : gen[s] = IdleGen => gen'[s] = IdleGen
  <1>1. gen \in [Requests -> GenRecord] /\ gen[r].pc # "none" /\ StoreTypes
    BY DEF StoreInv, StoreTypes, GenerateStep, AdminStep, GenerateAgentCertIfNotExists,
           GenerateCert, GenerateWriteCert, GenerateOpenKey, GenerateWriteKey,
           GenerateWriteLost, GenerateFails, CreateReturns, RemoveFile, RemoveDir,
           GeneratingAt
  <1>2. IdleGen.pc = "none" /\ "none" \notin GeneratingAt
    BY DEF IdleGen, GeneratingAt
  <1>3. CASE RemoveFile(r)
    <2>1. PICK a \in Agents : gen[r].agent = a
      BY <1>3, AtWork DEF RemoveFile
    <2>2. PICK f \in {"cert", "key"} : gen' = [s \in Requests |-> AfterUnlink(s, a, f)]
      BY <1>3, <2>1 DEF RemoveFile
    <2>. QED
      BY <1>1, <1>2, <2>2, UnlinkFacts, SMT
  <1>4. ASSUME ~RemoveFile(r) PROVE \A s \in Requests : s # r => gen'[s] = gen[s]
    BY <1>1, <1>4, ZenonT(30)
    DEF GenerateStep, AdminStep, GenerateAgentCertIfNotExists, Goto, GenerateCert,
        GenerateWriteCert, GenerateOpenKey, GenerateWriteKey, GenerateWriteLost,
        GenerateFails, CreateReturns, RemoveDir
  <1>. QED
    BY <1>1, <1>2, <1>3, <1>4

\* The steps that leave the keys and the requests for Provision alone.
LEMMA FilesChangeInv ==
    ASSUME ProvInv, UNCHANGED <<keys, req>>,
           Boot \/ \E r \in Requests : StoreStep(r) \/ AdminCall(r)
    PROVE  ProvInv'
  <1>1. KeyTypes'
    BY DEF ProvInv, KeyTypes
  <1>2. CASE Boot
    <2>1. boot # "up"
      BY <1>2 DEF Boot, BootCA, BootServer, BootWrite, ProvInv, BootInv, BootTypes, Files
    <2>2. \A s \in Requests : req[s].pc = "none"
      BY <2>1 DEF ProvInv, ReqConsistent
    <2>3. ReqConsistent'
      BY <2>2 DEF ReqConsistent
    <2>. QED
      BY <1>1, <1>2, <2>3, BootInvStep DEF ProvInv
  <1>3. ASSUME NEW r \in Requests, StoreStep(r) PROVE ProvInv'
    <2>1. GenerateStep(r) \/ AdminStep(r)
      BY <1>3 DEF StoreStep
    <2>2. BootInv' /\ StoreInv'
      BY <2>1, StoreStepInv DEF ProvInv
    <2>3. boot' = boot
      BY <2>1, ZenonT(30) DEF GenerateStep, AdminStep, GenerateAgentCertIfNotExists, GenerateCert,
           GenerateWriteCert, GenerateOpenKey, GenerateWriteKey, GenerateWriteLost,
           GenerateFails, CreateReturns, RemoveFile, RemoveDir, bootVars
    <2>4. ReqConsistent'
      BY <2>1, <2>3, IdleStays DEF ProvInv, ReqConsistent
    <2>. QED
      BY <1>1, <2>2, <2>4 DEF ProvInv
  <1>4. ASSUME NEW r \in Requests, AdminCall(r) PROVE ProvInv'
    <2>1. PICK a \in Agents : CreateAgentCertificate(r, a) \/ DeleteAgentCertificate(r, a)
      BY <1>4 DEF AdminCall
    <2>2. StoreInv' /\ UNCHANGED bootVars
      BY <2>1, AdminCallsInv DEF ProvInv, CreateAgentCertificate, DeleteAgentCertificate
    <2>3. BootInv'
      BY <2>2 DEF ProvInv, bootVars, BootInv, BootTypes, CAConsistent, ServerConsistent
    <2>4. /\ \A s \in Requests : s # r => gen'[s] = gen[s]
          /\ req[r].pc = "none"
      <3>1. gen \in [Requests -> GenRecord]
        BY DEF ProvInv, StoreInv, StoreTypes
      <3>2. \E g : gen' = [gen EXCEPT ![r] = g]
        BY <2>1 DEF CreateAgentCertificate, DeleteAgentCertificate
      <3>3. req[r].pc = "none"
        BY <1>4, SMT DEF AdminCall, IdleReq
      <3>. QED
        BY <3>1, <3>2, <3>3
    <2>5. ReqConsistent'
      BY <2>2, <2>4 DEF ProvInv, ReqConsistent, bootVars
    <2>. QED
      BY <1>1, <2>2, <2>3, <2>5 DEF ProvInv
  <1>. QED
    BY <1>2, <1>3, <1>4

-----------------------------------------------------------------------------
\* The invariant holds before the first start...
LEMMA ProvInvInit ==
    ASSUME Init
    PROVE  ProvInv
  <1>1. /\ IdleGen \in GenRecord /\ IdleGen.pc = "none" /\ IdleGen.op = "none"
        /\ IdleReq \in ReqRecord /\ IdleReq.pc = "none"
        /\ NoKey \in KeyRecord /\ ~NoKey.stored
    BY DEF IdleGen, GenRecord, IdleReq, ReqRecord, NoKey, KeyRecord
  <1>2. StoreInit /\ BootInv
    BY BootInvInit DEF Init
  <1>3. \A a \in Agents : agentFile[a].cert = NoFile /\ agentFile[a].key = NoFile
    BY <1>2 DEF StoreInit
  <1>4. StoreTypes /\ SignedConsistent
    BY <1>1, <1>2, <1>3, FileFacts
    DEF StoreInit, StoreTypes, PairRecord, SignedConsistent, SignedBy
  <1>5. GenConsistent /\ MutexConsistent
    BY <1>1, <1>2, CertAssumption DEF StoreInit, GenConsistent, MutexConsistent, GeneratingAt
  <1>6. AgentsConsistent
    BY <1>1, <1>2, <1>3, FileFacts, SMT
    DEF StoreInit, AgentsConsistent, PairConsistent, Generating,
        GeneratingAt
  <1>7. KeyTypes /\ ReqConsistent
    BY <1>1 DEF Init, KeyTypes, ReqConsistent
  <1>. QED
    BY <1>2, <1>4, <1>5, <1>6, <1>7 DEF ProvInv, StoreInv

\* ... every step of the start, a request, an administrator or a crash keeps it...
LEMMA ProvInvStep ==
    ASSUME ProvInv, [Next]_vars
    PROVE  ProvInv'
  <1>1. CASE UNCHANGED vars
    <2>1. KeyTypes' /\ ReqConsistent'
      BY <1>1 DEF vars, storeVars, ProvInv, KeyTypes, ReqConsistent
    <2>. QED
      BY <1>1, <2>1, StoreUnchanged DEF vars, ProvInv
  <1>2. CASE Crash
    <2>1. /\ IdleReq \in ReqRecord /\ IdleReq.pc = "none"
          /\ NoKey \in KeyRecord /\ ~NoKey.stored
      BY DEF IdleReq, ReqRecord, NoKey, KeyRecord
    <2>2. KeyTypes' /\ ReqConsistent'
      BY <1>2, <2>1 DEF Crash, KeyTypes, ReqConsistent
    <2>. QED
      BY <1>2, <2>2, CrashStoreInv DEF Crash, ProvInv
  <1>3. CASE \/ Boot /\ UNCHANGED <<keys, req>>
             \/ \E r \in Requests : StoreStep(r) \/ AdminCall(r)
    BY <1>3, FilesChangeInv DEF StoreStep, AdminCall
  <1>. QED
    BY <1>1, <1>2, <1>3, KeysChange, KeyLooksInv, GenerateCallInv DEF Next, ProvisionStep

\* ... so it always holds.
LEMMA ProvInvariance == Spec => []ProvInv
  BY ProvInvInit, ProvInvStep, PTL DEF Spec

\* No crash, error or restart leaves a whole certificate on disk whose CA is no longer
\* there, certificate and key: ensureCertificates makes a new CA only while no CA key
\* exists, and nothing was signed by then.
THEOREM CertificatesStayValid == Spec => []CertificatesVerify
  <1>1. ProvInv => CertificatesVerify
    <2>. SUFFICES ASSUME ProvInv,
                         NEW c \in {file["srvCert"]} \cup {agentFile[a].cert : a \in Agents},
                         c.state = "whole"
                  PROVE  /\ file["caCert"] = Cert(c.signer, c.signer)
                         /\ file["caKey"] = KeyOf(c.signer)
      BY DEF CertificatesVerify
    <2>1. file["caKey"].state = "whole" /\ c.signer = file["caCert"].pair
      BY DEF ProvInv, StoreInv, SignedConsistent, SignedBy
    <2>. QED
      BY <2>1 DEF ProvInv, BootInv, CAConsistent
  <1>. QED
    BY <1>1, ProvInvariance, PTL

\* A server that is up has a certificate and a key, of one pair if both are whole:
\* GenerateServerCert writes the key after the certificate of the same pair.
THEOREM ServerPairMatches == Spec => []UpHasServerPair
  <1>1. ProvInv => UpHasServerPair
    <2>. SUFFICES ASSUME ProvInv, boot = "up"
                  PROVE  /\ NoFile \notin {file["srvCert"], file["srvKey"]}
                         /\ Torn \notin {file["srvCert"], file["srvKey"]} =>
                               file["srvCert"].pair = file["srvKey"].pair
      BY DEF UpHasServerPair
    <2>1. NoFile \notin {file["srvCert"], file["srvKey"]}
      BY DEF ProvInv, BootInv, ServerConsistent
    <2>2. file["srvKey"].state \in {"none", "torn", "whole"}
      BY DEF ProvInv, BootInv, BootTypes, FileRecord, Files
    <2>3. file["srvKey"] # Torn => file["srvKey"].state = "whole"
      BY <2>1, <2>2 DEF ProvInv, BootInv, CAConsistent, Files
    <2>. QED
      BY <2>1, <2>3 DEF ProvInv, BootInv, ServerConsistent
  <1>. QED
    BY <1>1, ProvInvariance, PTL

\* A request that writes to the files of an undisturbed agent finds no whole key there:
\* it is the only one at work on them, and the key's file is the last it writes.
LEMMA WritesIncomplete ==
    ASSUME StoreInv, NEW r \in Requests, NEW a \in Agents, gen[r].agent = a,
           gen[r].pc \in GeneratingAt, a \notin disturbed
    PROVE  agentFile[a].key.state # "whole"
  <1>1. r \in Generating(a) /\ PairConsistent(a)
    BY DEF StoreInv, AgentsConsistent, Generating
  <1>2. agentFile[a].key = NoFile \/ agentFile[a].key = Torn
    BY <1>1 DEF PairConsistent, GeneratingAt
  <1>. QED
    BY <1>2, FileFacts

\* agentCertMu and the second look at the files under it keep any number of concurrent
\* requests from writing over an agent's complete pair (GenerateAgentCertIfNotExists),
\* and so does the look alone in CreateAgentCertificate when no other request is at work.
THEOREM CompletePairsStay == Spec => CompletePairIsKept
  <1>. DEFINE Kept(a) == agentFile[a].cert.state = "whole" /\ agentFile[a].key.state = "whole"
                            => agentFile'[a] = agentFile[a]
  <1>1. ASSUME ProvInv, [Next]_vars, NEW a \in Agents \ disturbed' PROVE Kept(a)
    <2>1. CASE UNCHANGED agentFile
      BY <2>1
    <2>2. ASSUME NEW r \in Requests, NEW b \in Agents, gen[r].agent = b,
                 GenerateCert(r) \/ GenerateWriteCert(r) \/ GenerateOpenKey(r)
          PROVE  Kept(a)
      <3>1. disturbed' = disturbed /\ (b # a => agentFile'[a] = agentFile[a])
        BY <1>1, <2>2, WritesEffect DEF ProvInv
      <3>2. gen[r].pc \in GeneratingAt
        BY <2>2 DEF GenerateCert, GenerateWriteCert, GenerateOpenKey, GeneratingAt
      <3>. QED
        BY <1>1, <2>2, <3>1, <3>2, WritesIncomplete DEF ProvInv
    <2>3. ASSUME NEW r \in Requests, NEW b \in Agents, gen[r].agent = b,
                 GenerateWriteKey(r) \/ GenerateWriteLost(r) \/ GenerateFails(r)
          PROVE  Kept(a)
      <3>1. /\ disturbed' = disturbed /\ (b # a => agentFile'[a] = agentFile[a])
            /\ gen[r].pc \in GeneratingAt
        BY <1>1, <2>3, EndsEffect DEF ProvInv
      <3>. QED
        BY <1>1, <2>3, <3>1, WritesIncomplete DEF ProvInv
    <2>4. ASSUME NEW r \in Requests, RemoveFile(r) PROVE Kept(a)
      BY <1>1, <2>4 DEF RemoveFile, ProvInv, StoreInv, StoreTypes
    <2>5. \A r \in Requests : gen[r].pc \in GeneratingAt => gen[r].agent \in Agents
      BY <1>1, AtWork DEF ProvInv
    <2>6. ASSUME NEW r \in Requests, GenerateStep(r) \/ AdminStep(r) PROVE Kept(a)
      <3>1. CASE GenerateAgentCertIfNotExists(r) \/ CreateReturns(r) \/ RemoveDir(r)
        BY <2>1, <3>1 DEF GenerateAgentCertIfNotExists, CreateReturns, RemoveDir
      <3>2. CASE GenerateCert(r) \/ GenerateWriteCert(r) \/ GenerateOpenKey(r)
        BY <2>2, <2>5, <3>2
           DEF GenerateCert, GenerateWriteCert, GenerateOpenKey, GeneratingAt
      <3>3. CASE GenerateWriteKey(r) \/ GenerateWriteLost(r) \/ GenerateFails(r)
        BY <2>3, <2>5, <3>3
           DEF GenerateWriteKey, GenerateWriteLost, GenerateFails, GeneratingAt
      <3>. QED
        BY <2>4, <2>6, <3>1, <3>2, <3>3 DEF GenerateStep, AdminStep
    <2>7. CASE Boot \/ Crash \/ UNCHANGED vars
      BY <2>1, <2>7 DEF Boot, BootCA, BootServer, BootWrite, agentVars, Crash, CrashStore,
                        vars, storeVars
    <2>8. CASE \/ Cleanup \/ \E k \in Keys : Expire(k) \/ \E b \in Agents : Create(k, b)
               \/ \E b \in Agents : Revoke(b)
      BY <2>1, <2>8 DEF Cleanup, Expire, Create, Revoke, storeVars
    <2>9. ASSUME NEW r \in Requests, ProvisionStep(r) \/ AdminCall(r)
                                        \/ \E k \in Keys : ValidateLookup(r, k)
          PROVE  Kept(a)
      BY <2>1, <2>9 DEF ProvisionStep, ValidateCheck, Generated, MarkUsed, AdminCall,
                        CreateAgentCertificate, DeleteAgentCertificate, ValidateLookup, storeVars
    <2>. QED
      BY <1>1, <2>6, <2>7, <2>8, <2>9 DEF Next, StoreStep
  <1>2. ProvInv /\ [Next]_vars => [\A a \in Agents \ disturbed' : Kept(a)]_vars
    BY <1>1
  <1>. QED
    BY <1>2, ProvInvariance, PTL DEF Spec, CompletePairIsKept

\* The files of an agent that nobody disturbed belong together whenever no request is
\* writing them (GenerateAgentCert, DeleteAgentCert).
THEOREM AgentPairsMatch == Spec => []AgentPairMatches
  <1>1. ProvInv => AgentPairMatches
    BY DEF ProvInv, StoreInv, AgentsConsistent, PairConsistent, AgentPairMatches
  <1>. QED
    BY <1>1, ProvInvariance, PTL
=============================================================================
