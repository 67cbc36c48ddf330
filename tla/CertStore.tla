------------------------------- MODULE CertStore -------------------------------
(***************************************************************************)
(* The certificate files (internal/cert and the handlers of               *)
(* internal/api/http/handler/cert.go): the CA and server files a start   *)
(* makes sure of, and the files of the agents that requests generate and   *)
(* delete while the server is up.                                          *)
(*                                                                         *)
(* A key pair is a number; a certificate names the pair it is for and the  *)
(* pair that signed it.  os.WriteFile truncates and then writes, so that a *)
(* crash or an error in between leaves a file that is there and cannot be  *)
(* parsed.  The process may crash at any time; the files stay.             *)
(***************************************************************************)
EXTENDS Naturals, FiniteSets

CONSTANTS
    Agents,
    Requests,     \* the goroutines of HTTP requests
    NoRequest,    \* "the mutex is free"
    maxPair       \* how many key pairs can be told apart at a time

ASSUME CertAssumption == NoRequest \notin Requests /\ maxPair \in Nat \ {0}

VARIABLES
    boot,         \* "down", "caCert", "caKey", "server", "srvCert", "srvKey", "up"
    made,         \* the pair the start is writing, 0 for none
    file,         \* the CA's and the server's files
    agentFile,    \* per agent, its certificate and key files
    dirs,         \* the agents whose directory exists
    gen,          \* per request, how far it is with an agent's files
    agentCertMu,  \* the request that holds the mutex
    disturbed     \* history: agents with a deletion under way or left half-done, or
                  \* whose files CreateAgentCertificate wrote beside another request

storeVars == <<boot, made, file, agentFile, dirs, gen, agentCertMu, disturbed>>

Pairs == 1..maxPair

NoFile == [state |-> "none", pair |-> 0, signer |-> 0]
Torn == [state |-> "torn", pair |-> 0, signer |-> 0]

\* A certificate of pair n signed by pair c; a key file has no signer.
Cert(n, c) == [state |-> "whole", pair |-> n, signer |-> c]
KeyOf(n) == Cert(n, 0)

IdleGen == [pc |-> "none", op |-> "none", agent |-> "none", pair |-> 0]

StoreInit ==
    /\ boot = "down" /\ made = 0
    /\ file = [p \in {"caCert", "caKey", "srvCert", "srvKey"} |-> NoFile]
    /\ agentFile = [a \in Agents |-> [cert |-> NoFile, key |-> NoFile]]
    /\ dirs = {}
    /\ gen = [r \in Requests |-> IdleGen]
    /\ agentCertMu = NoRequest
    /\ disturbed = {}

\* The pairs of the CA and the server, and those of the agents, in files or in the
\* hands of a goroutine.
CAPairs == {file[p].pair : p \in {"caCert", "caKey"}} \cup {file["srvCert"].signer}
           \cup {agentFile[a].cert.signer : a \in Agents}
ServerPairs == {file[p].pair : p \in {"srvCert", "srvKey"}}
AgentPairs == {agentFile[a][f].pair : a \in Agents, f \in {"cert", "key"}}
              \cup {gen[r].pair : r \in Requests}

\* rsa.GenerateKey: n is a pair that is not in use.  (Which one does not matter; the
\* CA's, the server's and the agents' pairs are never compared with each other.)
NewPair(n, inUse) ==
    /\ n \in Pairs \ inUse
    /\ \A m \in Pairs \ inUse : n <= m

\* Where GenerateAgentCert may stand.
GeneratingAt == {"load", "certOpen", "key", "keyOpen", "keyLost"}

\* The requests that are generating files of agent a.
Generating(a) ==
    {r \in Requests : gen[r].agent = a /\ gen[r].pc \in GeneratingAt}

agentVars == <<agentFile, dirs, gen, agentCertMu, disturbed>>

-----------------------------------------------------------------------------
\* Mutant of BootCA: a missing server file makes a new CA, too.
BootCAEager ==
    /\ boot = "down"
    /\ IF \E p \in DOMAIN file : file[p] = NoFile
       THEN boot' = "caCert" /\ \E n \in Pairs : NewPair(n, CAPairs) /\ made' = n
       ELSE /\ boot' = IF Torn \in {file["caCert"], file["caKey"]} THEN "down" ELSE "server"
            /\ UNCHANGED made
    /\ UNCHANGED <<file, agentVars>>

\* The process is started: ensureCertificates makes a CA when one of its files is
\* missing and loads the files otherwise; the start fails when they cannot be parsed.
BootCA ==
    /\ boot = "down"
    /\ IF NoFile \in {file["caCert"], file["caKey"]}
       THEN boot' = "caCert" /\ \E n \in Pairs : NewPair(n, CAPairs) /\ made' = n
       ELSE /\ boot' = IF Torn \in {file["caCert"], file["caKey"]} THEN "down" ELSE "server"
            /\ UNCHANGED made
    /\ UNCHANGED <<file, agentVars>>

\* Mutant of BootServer: a certificate without its key will do.
BootServerOneFile ==
    /\ boot = "server"
    /\ \/ /\ file["srvCert"] = NoFile
          /\ file["caKey"].pair = file["caCert"].pair
          /\ boot' = "srvCert" /\ \E n \in Pairs : NewPair(n, ServerPairs) /\ made' = n
       \/ /\ file["srvCert"] # NoFile
          /\ boot' = "up" /\ UNCHANGED made
    /\ UNCHANGED <<file, agentVars>>

\* The same for the server's files, which are not parsed here.  A certificate can
\* only be made with the CA's own key.
BootServer ==
    /\ boot = "server"
    /\ \/ /\ NoFile \in {file["srvCert"], file["srvKey"]}
          /\ file["caKey"].pair = file["caCert"].pair
          /\ boot' = "srvCert" /\ \E n \in Pairs : NewPair(n, ServerPairs) /\ made' = n
       \/ /\ NoFile \notin {file["srvCert"], file["srvKey"]}
          /\ boot' = "up" /\ UNCHANGED made
    /\ UNCHANGED <<file, agentVars>>

\* What the start writes to file p.
Contents(p) ==
    CASE p = "caCert" -> Cert(made, made)
      [] p = "srvCert" -> Cert(made, file["caCert"].pair)
      [] OTHER -> KeyOf(made)

BootOrder == [caCert |-> "caKey", caKey |-> "server", srvCert |-> "srvKey", srvKey |-> "up"]

\* A file is truncated and then written; the certificate comes before its key.
BootWrite(p) ==
    /\ boot = p
    /\ IF file[p] # Torn
       THEN file' = [file EXCEPT ![p] = Torn] /\ UNCHANGED <<boot, made>>
       ELSE /\ file' = [file EXCEPT ![p] = Contents(p)]
            /\ boot' = BootOrder[p]
            /\ made' = IF p \in {"caKey", "srvKey"} THEN 0 ELSE made
    /\ UNCHANGED agentVars

\* The process ends, by a crash, an error of the start or a shutdown: the files are
\* what is left of it.
CrashStore ==
    /\ boot # "down"
    /\ boot' = "down" /\ made' = 0
    /\ gen' = [r \in Requests |-> IdleGen]
    /\ agentCertMu' = NoRequest
    /\ UNCHANGED <<file, agentFile, dirs, disturbed>>

-----------------------------------------------------------------------------
bootVars == <<boot, made, file>>

\* AgentCertExists; the two files are looked at in one step.
AgentCertExists(a) == agentFile[a].cert # NoFile /\ agentFile[a].key # NoFile

Unlocked(r) == IF agentCertMu = r THEN NoRequest ELSE agentCertMu

Goto(r, pc) == gen' = [gen EXCEPT ![r].pc = pc]

\* CreateAgentCertificate: the certificate is looked for and then made, without the
\* mutex.
CreateAgentCertificate(r, a) ==
    /\ boot = "up" /\ gen[r] = IdleGen
    /\ ~AgentCertExists(a)
    /\ gen' = [gen EXCEPT ![r] = [pc |-> "load", op |-> "create", agent |-> a, pair |-> 0]]
    /\ disturbed' = disturbed \cup (IF Generating(a) = {} THEN {} ELSE {a})
    /\ UNCHANGED <<bootVars, agentFile, dirs, agentCertMu>>

\* Mutant of GenerateAgentCertIfNotExists: the mutex is not taken.
GenerateIfNotExistsUnlocked(r) ==
    /\ gen[r].pc = "lock"
    /\ LET a == gen[r].agent IN
       IF AgentCertExists(a)
       THEN Goto(r, "exists") /\ UNCHANGED <<agentCertMu, disturbed>>
       ELSE /\ Goto(r, "load") /\ UNCHANGED agentCertMu
            /\ disturbed' = disturbed \cup
                  (IF \E s \in Generating(a) : gen[s].op = "create" THEN {a} ELSE {})
    /\ UNCHANGED <<bootVars, agentFile, dirs>>

\* GenerateAgentCertIfNotExists: the same under the mutex, which is held until the
\* files are written.
GenerateAgentCertIfNotExists(r) ==
    /\ gen[r].pc = "lock" /\ agentCertMu = NoRequest
    /\ LET a == gen[r].agent IN
       IF AgentCertExists(a)
       THEN Goto(r, "exists") /\ UNCHANGED <<agentCertMu, disturbed>>
       ELSE /\ Goto(r, "load") /\ agentCertMu' = r
            /\ disturbed' = disturbed \cup
                  (IF \E s \in Generating(a) : gen[s].op = "create" THEN {a} ELSE {})
    /\ UNCHANGED <<bootVars, agentFile, dirs>>

\* GenerateAgentCert: load the CA, make the certificate in memory, make the directory
\* and open the certificate's file, which truncates it...
GenerateCert(r) ==
    /\ gen[r].pc = "load"
    /\ file["caCert"].state = "whole" /\ file["caKey"] = KeyOf(file["caCert"].pair)
    /\ \E n \in Pairs :
          NewPair(n, AgentPairs) /\ gen' = [gen EXCEPT ![r].pair = n, ![r].pc = "certOpen"]
    /\ dirs' = dirs \cup {gen[r].agent}
    /\ agentFile' = [agentFile EXCEPT ![gen[r].agent].cert = Torn]
    /\ UNCHANGED <<bootVars, agentCertMu, disturbed>>

\* ... write it...
GenerateWriteCert(r) ==
    /\ gen[r].pc = "certOpen" /\ Goto(r, "key")
    /\ agentFile' = [agentFile EXCEPT ![gen[r].agent].cert =
                        Cert(gen[r].pair, file["caCert"].pair)]
    /\ UNCHANGED <<bootVars, dirs, agentCertMu, disturbed>>

\* ... open the key's file, if the directory is still there...
GenerateOpenKey(r) ==
    /\ gen[r].pc = "key" /\ Goto(r, "keyOpen")
    /\ gen[r].agent \in dirs
    /\ agentFile' = [agentFile EXCEPT ![gen[r].agent].key = Torn]
    /\ UNCHANGED <<bootVars, dirs, agentCertMu, disturbed>>

\* ... and write it; the mutex is given back.
GenerateWriteKey(r) ==
    /\ gen[r].pc = "keyOpen"
    /\ gen' = [gen EXCEPT ![r].pc = "created", ![r].pair = 0]
    /\ agentFile' = [agentFile EXCEPT ![gen[r].agent].key = KeyOf(gen[r].pair)]
    /\ agentCertMu' = Unlocked(r)
    /\ UNCHANGED <<bootVars, dirs, disturbed>>

\* The write went to a file that was removed meanwhile.
GenerateWriteLost(r) ==
    /\ gen[r].pc = "keyLost"
    /\ gen' = [gen EXCEPT ![r].pc = "created", ![r].pair = 0]
    /\ agentCertMu' = Unlocked(r)
    /\ UNCHANGED <<bootVars, agentFile, dirs, disturbed>>

\* Any of these may fail, by an error of the file system or because the directory
\* is gone; what was written so far stays.
GenerateFails(r) ==
    /\ gen[r].pc \in GeneratingAt
    /\ gen' = [gen EXCEPT ![r].pc = "failed", ![r].pair = 0]
    /\ agentCertMu' = Unlocked(r)
    /\ UNCHANGED <<bootVars, agentFile, dirs, disturbed>>

\* CreateAgentCertificate answers with the zip of what it has in memory, or an error.
CreateReturns(r) ==
    /\ gen[r].op = "create" /\ gen[r].pc \in {"created", "failed"}
    /\ gen' = [gen EXCEPT ![r] = IdleGen]
    /\ UNCHANGED <<bootVars, agentFile, dirs, agentCertMu, disturbed>>

\* DeleteAgentCertificate of a complete certificate...
DeleteAgentCertificate(r, a) ==
    /\ boot = "up" /\ gen[r] = IdleGen
    /\ AgentCertExists(a)
    /\ gen' = [gen EXCEPT ![r] = [pc |-> "remove", op |-> "delete", agent |-> a, pair |-> 0]]
    /\ UNCHANGED <<bootVars, agentFile, dirs, agentCertMu, disturbed>>

\* A goroutine that has file f of agent a open goes on writing to a file without a
\* name.
AfterUnlink(s, a, f) ==
    CASE gen[s].agent = a /\ f = "cert" /\ gen[s].pc = "certOpen" -> [gen[s] EXCEPT !.pc = "key"]
      [] gen[s].agent = a /\ f = "key" /\ gen[s].pc = "keyOpen" -> [gen[s] EXCEPT !.pc = "keyLost"]
      [] OTHER -> gen[s]

\* ... os.RemoveAll removes its files one after the other, in the order in which
\* the directory lists them...
RemoveFile(r) ==
    /\ gen[r].pc = "remove"
    /\ LET a == gen[r].agent IN
       \E f \in {"cert", "key"} :
          /\ agentFile[a][f] # NoFile
          /\ agentFile' = [agentFile EXCEPT ![a][f] = NoFile]
          /\ gen' = [s \in Requests |-> AfterUnlink(s, a, f)]
          /\ disturbed' = disturbed \cup {a}
    /\ UNCHANGED <<bootVars, dirs, agentCertMu>>

\* ... and then the directory, or gives up with an error.
RemoveDir(r) ==
    /\ gen[r].pc = "remove"
    /\ gen' = [gen EXCEPT ![r] = IdleGen]
    /\ LET a == gen[r].agent IN
       \/ /\ agentFile[a] = [cert |-> NoFile, key |-> NoFile]
          /\ dirs' = dirs \ {a}
          /\ disturbed' = IF Generating(a) = {} THEN disturbed \ {a} ELSE disturbed
       \/ UNCHANGED <<dirs, disturbed>>
    /\ UNCHANGED <<bootVars, agentFile, agentCertMu>>

-----------------------------------------------------------------------------
Boot == BootCA \/ BootServer \/ \E p \in DOMAIN file : BootWrite(p)

\* What a request does by itself once it has begun.
GenerateStep(r) ==
    \/ GenerateAgentCertIfNotExists(r) \/ GenerateCert(r) \/ GenerateWriteCert(r)
    \/ GenerateOpenKey(r) \/ GenerateWriteKey(r) \/ GenerateWriteLost(r) \/ GenerateFails(r)

AdminStep(r) == CreateReturns(r) \/ RemoveFile(r) \/ RemoveDir(r)

=============================================================================
