----------------------------- MODULE Provisioning -----------------------------
(***************************************************************************)
(* Provisioning of agents: the store of provision keys                     *)
(* (internal/provision/key_store.go) and the requests that exchange a key  *)
(* for a certificate (internal/api/http/handler/provision.go), on top of   *)
(* the certificate files of CertStore.  The keys are in memory only, so a  *)
(* crash forgets them and keeps the files.                                 *)
(***************************************************************************)
EXTENDS CertStore

CONSTANT Keys

VARIABLES
    keys,     \* the ProvisionKey objects: `stored' while the map holds them
    req       \* per request for Provision: its key and where it stands

vars == <<storeVars, keys, req>>

NoKey == [stored |-> FALSE, agent |-> "none", used |-> FALSE, expired |-> FALSE]

IdleReq == [pc |-> "none", key |-> "none"]

Init ==
    /\ StoreInit
    /\ keys = [k \in Keys |-> NoKey]
    /\ req = [r \in Requests |-> IdleReq]

\* A request still has a pointer to key k.
Held(k) == \E r \in Requests : req[r].key = k

-----------------------------------------------------------------------------
\* CreateProvisionKey: a new random key for agent a.
Create(k, a) ==
    /\ boot = "up"
    /\ ~keys[k].stored /\ ~Held(k)
    /\ keys' = [keys EXCEPT ![k] = [NoKey EXCEPT !.stored = TRUE, !.agent = a]]
    /\ UNCHANGED <<storeVars, req>>

\* The keys without those of S, whose objects live on in the requests that hold them.
Without(S) ==
    [k \in Keys |-> IF k \notin S THEN keys[k]
                    ELSE IF Held(k) THEN [keys[k] EXCEPT !.stored = FALSE] ELSE NoKey]

\* RevokeProvisionKey removes all keys of the agent, used ones included.
Revoke(a) ==
    /\ boot = "up"
    /\ keys' = Without({k \in Keys : keys[k].stored /\ keys[k].agent = a})
    /\ UNCHANGED <<storeVars, req>>

\* The time of key k has run out.  (A used key is refused and removed all the same.)
Expire(k) ==
    /\ keys[k].stored \/ Held(k)
    /\ ~keys[k].expired /\ ~keys[k].used
    /\ keys' = [keys EXCEPT ![k].expired = TRUE]
    /\ UNCHANGED <<storeVars, req>>

\* The keys that cleanup removes: used or expired.
Spent == {k \in Keys : keys[k].stored /\ (keys[k].used \/ keys[k].expired)}

\* StartCleanup's ticker fires.
Cleanup ==
    /\ boot = "up"
    /\ Spent # {}
    /\ keys' = Without(Spent)
    /\ UNCHANGED <<storeVars, req>>

-----------------------------------------------------------------------------
\* Provision: Validate finds the key under the read lock...
ValidateLookup(r, k) ==
    /\ boot = "up" /\ req[r] = IdleReq /\ gen[r] = IdleGen
    /\ keys[k].stored
    /\ req' = [req EXCEPT ![r] = [pc |-> "check", key |-> k]]
    /\ UNCHANGED <<storeVars, keys>>

\* ... and looks at its fields without; the request is refused, or goes on to
\* GenerateAgentCertIfNotExists.
ValidateCheck(r) ==
    /\ req[r].pc = "check"
    /\ LET key == keys[req[r].key] IN
       IF key.used \/ key.expired
       THEN req' = [req EXCEPT ![r] = IdleReq] /\ UNCHANGED gen
       ELSE /\ req' = [req EXCEPT ![r].pc = "generate"]
            /\ gen' = [gen EXCEPT ![r] = [pc |-> "lock", op |-> "provision",
                                          agent |-> key.agent, pair |-> 0]]
    /\ UNCHANGED <<bootVars, agentFile, dirs, agentCertMu, disturbed, keys>>

\* The call returns: a new certificate, unless encoding it or reading the CA
\* certificate fails; the conflict and the error leave the key as it is.
Generated(r) ==
    /\ req[r].pc = "generate" /\ gen[r].pc \in {"created", "exists", "failed"}
    /\ gen' = [gen EXCEPT ![r] = IdleGen]
    /\ \/ gen[r].pc = "created" /\ req' = [req EXCEPT ![r].pc = "mark"]
       \/ req' = [req EXCEPT ![r] = IdleReq]
    /\ UNCHANGED <<bootVars, agentFile, dirs, agentCertMu, disturbed, keys>>

\* MarkUsed, when the key is still stored, and the certificate is sent.
MarkUsed(r) ==
    /\ req[r].pc = "mark"
    /\ keys' = IF keys[req[r].key].stored
               THEN [keys EXCEPT ![req[r].key].used = TRUE] ELSE keys
    /\ req' = [req EXCEPT ![r] = IdleReq]
    /\ UNCHANGED storeVars

\* The process ends with its memory.
Crash ==
    /\ CrashStore
    /\ keys' = [k \in Keys |-> NoKey]
    /\ req' = [r \in Requests |-> IdleReq]

-----------------------------------------------------------------------------
ProvisionStep(r) == ValidateCheck(r) \/ Generated(r) \/ MarkUsed(r)

StoreStep(r) == (GenerateStep(r) \/ AdminStep(r)) /\ UNCHANGED <<keys, req>>

AdminCall(r) ==
    /\ req[r] = IdleReq
    /\ \E a \in Agents : CreateAgentCertificate(r, a) \/ DeleteAgentCertificate(r, a)
    /\ UNCHANGED <<keys, req>>

Next ==
    \/ Boot /\ UNCHANGED <<keys, req>>
    \/ Crash \/ Cleanup
    \/ (\E k \in Keys : Expire(k) \/ \E a \in Agents : Create(k, a))
    \/ (\E a \in Agents : Revoke(a))
    \/ \E r \in Requests :
          \/ (\E k \in Keys : ValidateLookup(r, k))
          \/ ProvisionStep(r) \/ StoreStep(r) \/ AdminCall(r)

Spec == Init /\ [][Next]_vars

-----------------------------------------------------------------------------
\* Every certificate that is whole on disk was signed by the CA that is there, whose
\* key is there too: no crash, failed write or restart replaces a CA that has signed
\* something (ensureCertificates).  fileExists is taken to be exact; it calls a file it
\* cannot stat missing, and then the CA would be replaced.
CertificatesVerify ==
    \A c \in {file["srvCert"]} \cup {agentFile[a].cert : a \in Agents} :
        c.state = "whole" =>
            /\ file["caCert"] = Cert(c.signer, c.signer)
            /\ file["caKey"] = KeyOf(c.signer)

\* A server that is up has both of its own files, and they belong together unless a
\* crash or an error cut the write of one short (ensureCertificates).
UpHasServerPair ==
    boot = "up" =>
        /\ NoFile \notin {file["srvCert"], file["srvKey"]}
        /\ Torn \notin {file["srvCert"], file["srvKey"]} =>
              file["srvCert"].pair = file["srvKey"].pair

\* A certificate and key that are complete on disk are never written over, so the
\* agent that was given them keeps a pair that is the server's own copy, too: neither by
\* requests that hold keys for the same agent, valid when they looked, nor after crashes
\* and errors (GenerateAgentCertIfNotExists).  The exceptions are named: a removal, and
\* CreateAgentCertificate, which takes no lock, beside another request.
CompletePairIsKept ==
    [][\A a \in Agents \ disturbed' :
          agentFile[a].cert.state = "whole" /\ agentFile[a].key.state = "whole"
              => agentFile'[a] = agentFile[a]]_vars

\* docs/cert-provisioning/overview.md: "Each provision key can only be used once", so a
\* request that has made a certificate for its key does not find the key used already.
\* Validate runs long before MarkUsed and nothing looks at the key in between: a second
\* request that was validated in time goes on once the agent's files are deleted.
KeyUsedOnce == \A r \in Requests : req[r].pc = "mark" => ~keys[req[r].key].used

\* An agent's certificate and key on disk belong together when nobody is writing
\* them, also after crashes and errors, with two exceptions: CreateAgentCertificate,
\* which takes no lock, wrote beside another request, or a deletion stopped half-way.
AgentPairMatches ==
    \A a \in Agents \ disturbed :
        ( /\ Generating(a) = {}
          /\ agentFile[a].cert.state = "whole" /\ agentFile[a].key.state = "whole" ) =>
              agentFile[a].cert.pair = agentFile[a].key.pair
=============================================================================
