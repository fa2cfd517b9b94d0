------------------------------ MODULE Settled ------------------------------
(***************************************************************************)
(* What the service's checks are worth when calls overlap.  A check made   *)
(* before an await may be stale when the write it protects is made, so a   *)
(* ban, a revocation, a decision or a deactivation does not bind a call    *)
(* that had passed the check.  But no call outlives its answer: once such  *)
(* a fact has held at a moment when no call about the user was in flight,  *)
(* nothing may be done against it any more.  And what overlapping and      *)
(* dying calls make of a user's rows, one rotation on its own sets right.  *)
(* Two history variables, which influence nothing, record which facts have *)
(* had that moment and which rotations have met another call.              *)
(***************************************************************************)
EXTENDS ServiceProperties

VARIABLES settled,      \* the facts that have held while their user was quiet
          overlapped    \* the rotations that met another call of their user

history == <<settled, overlapped>>

\* The facts about user u that the service is to respect.
FactsAbout(u) ==
    {<<"banned", v>> : v \in {v \in {u} : policy[v] = "BANNED"}}
    \cup {<<"revoked", c>> : c \in {c \in DOMAIN certificates :
              certificates[c].user = u /\ certificates[c].isRevoked}}
    \cup {<<"decided", r>> : r \in {r \in DOMAIN requests :
              requests[r].user = u /\ requests[r].status # "PENDING"}}
    \cup {<<"retired", k>> : k \in {k \in DOMAIN keyPairs :
              keyPairs[k].user = u /\ ~keyPairs[k].isActive}}

Facts      == UNION {FactsAbout(u) : u \in User}
QuietFacts == UNION {FactsAbout(u) : u \in {v \in User : Quiet(v)}}

\* Only a ban is ever lifted, and takes its fact along.
Settle == settled' = (settled \cap Facts') \cup QuietFacts'

Meet ==
    overlapped' = {p \in Call :
                      /\ ctx'[p].op = "rotate"
                      /\ \/ p \in overlapped
                         \/ \E q \in Call \ {p} : ctx'[q].user = ctx'[p].user}

SettledInit == Init /\ settled = {} /\ overlapped = {}
SettledNext == Next /\ Settle /\ Meet

SettledSpec == SettledInit /\ [][SettledNext]_<<vars, history>>

FairSettledSpec == SettledSpec /\ Fairness

-----------------------------------------------------------------------------
SignedUnder(certs) == {x \in documents : x.certificate \in certs}
SignedBy(k)        == {x \in documents : x.signature.keyPair = k}
RowsOf(table, u)   == {i \in DOMAIN table : table[i].user = u}

\* A settled ban stops the user: no new request, certificate or signed
\* document, whatever was pending when it was imposed, until it is lifted
\* (ensureCertificateAccessAllowed, ensureRequestApprovalAllowed and
\* getActiveCertificate each read the policy once, before everything else).
BanStopsTheUser ==
    [][\A u \in User : <<"banned", u>> \in settled =>
          /\ RowsOf(requests, u)' = RowsOf(requests, u)
          /\ RowsOf(certificates, u)' = RowsOf(certificates, u)
          /\ {x \in documents' : x.user = u} = {x \in documents : x.user = u}
      ]_<<vars, history>>

\* A settled revocation is final: the certificate stays revoked and keeps the
\* reason on record, though revoke() and rotate() may each have written one,
\* nothing more is signed under it, and no verification accepts a signature by
\* it (certificates.service.ts: "This action is permanent").
RevocationIsFinal ==
    [][\A c \in DOMAIN certificates : <<"revoked", c>> \in settled =>
          /\ certificates'[c] = certificates[c]
          /\ SignedUnder({c})' = SignedUnder({c})
          /\ {v \in verifications' : v.certificate = c}
                = {v \in verifications : v.certificate = c}
      ]_<<vars, history>>

\* A settled decision is final: no review, rotation or crash changes the
\* status of the request again, or the certificate issued for it (approve,
\* reject and rotate each filter on PENDING, two of them in a read before).
DecisionIsFinal ==
    [][\A r \in DOMAIN requests : <<"decided", r>> \in settled =>
          requests'[r] = requests[r]
      ]_<<vars, history>>

\* A settled deactivation is final: the old private key signs neither a
\* document nor a certificate, and its public key gets no certificate and no
\* request (rotate: "Mark old key inactive").
RetirementIsFinal ==
    [][\A k \in DOMAIN keyPairs : <<"retired", k>> \in settled =>
          /\ ~keyPairs'[k].isActive
          /\ SignedBy(k)' = SignedBy(k)
          /\ \A c \in DOMAIN certificates' \ DOMAIN certificates :
                k \notin {certificates'[c].keyPair, certificates'[c].signer}
          /\ \A r \in DOMAIN requests' \ DOMAIN requests :
                requests'[r].keyPair # k
      ]_<<vars, history>>

\* A rotation that no other call of its user overlaps and that does not die
\* sets the user's rows right, and is never refused: it leaves the new key pair
\* as the only active one, no unrevoked certificate and no pending request,
\* although overlapping or dying calls had left two active key pairs, two
\* pending requests or two live certificates, a certificate whose request was
\* rejected, or a rotation that stopped halfway ("marks old inactive, revokes
\* existing certificate", keys.controller.ts).
RotationRepairs ==
    [][\A p \in Call \ overlapped, u \in User :
          /\ ctx[p].op = "rotate" /\ ctx[p].user = u
          /\ pc[p] # "idle" /\ pc'[p] = "idle" /\ failures' = failures
          => /\ ActiveKeyPairs(u)' = {Len(keyPairs) + 1}
             /\ Unrevoked(u)' = {}
             /\ Pending(u)' = {}
      ]_<<vars, history>>
=============================================================================
