--------------------------- MODULE ImageProperties ---------------------------
(***************************************************************************)
(* What a user's signature images are worth, though no transaction joins   *)
(* the bucket and the table and nothing keeps two uploads of one user      *)
(* apart.  History variables, which influence nothing, record what the     *)
(* answers given so far entitle the user to expect.                        *)
(***************************************************************************)
EXTENDS SignatureImages

VARIABLES before,       \* by call: the user's rows when it was requested
          overlapped,   \* the calls that met another one of their user
          superseded,   \* rows older than an upload that was answered
          expected,     \* by user: the image that should be current, 0 for none
          known,        \* the users for whom that is certain
          barred        \* disabled accounts whose calls are all answered

history == <<before, overlapped, superseded, expected, known, barred>>

InFlight(u) == {p \in Call : ctx[p].user = u}
Quiet(u)    == InFlight(u) = {}

\* Calls p that this step answers after their last statement.
Uploaded == {p \in Call : /\ pc[p] = "upload.create"
                          /\ Len(images') > Len(images) /\ pc'[p] = "idle"}
Deleted  == {p \in Call : /\ pc[p] = "delete.update"
                          /\ failures' = failures /\ pc'[p] = "idle"}
Begun(p) == pc[p] = "idle" /\ pc'[p] # "idle"
Ended(p) == pc[p] # "idle" /\ pc'[p] = "idle"

\* A call's effect on what its user expects.  S3's refusal of an upload is
\* meant to have none, a call that is turned down has none.
Disturbs(p) == Ended(p) /\ (p \in overlapped \/ (failures' # failures
                                                   /\ pc[p] # "upload.put"))
Settles(p)  == p \in Uploaded /\ p \notin overlapped

Observe ==
    /\ before' = [p \in Call |->
                     IF Begun(p) /\ ctx'[p].op = "upload"
                     THEN ImagesOfUser(ctx'[p].user)
                     ELSE IF Ended(p) THEN {} ELSE before[p]]
    /\ overlapped' = {p \in Call : /\ pc'[p] # "idle"
                                   /\ \/ p \in overlapped
                                      \/ \E q \in Call \ {p} :
                                            ctx'[q].user = ctx'[p].user}
    /\ superseded' = superseded \cup UNION {before[p] : p \in Uploaded}
    /\ expected' = [u \in User |->
                       CASE \E p \in Uploaded : ctx[p].user = u -> Len(images')
                         [] \E p \in Deleted : ctx[p].user = u -> 0
                         [] OTHER -> expected[u]]
    /\ known' = (known \cup {ctx[p].user : p \in {q \in Call : Settles(q)}})
                   \ {ctx[p].user : p \in {q \in Call : Disturbs(q)}}
    /\ barred' = {u \in User : /\ account'[u] # "enabled"
                               /\ u \in barred \/ Quiet(u)'}

ObservedInit ==
    /\ ImagesInit
    /\ before = [p \in Call |-> {}]
    /\ overlapped = {}
    /\ superseded = {}
    /\ expected = [u \in User |-> 0]
    /\ known = User
    /\ barred = {}

ObservedNext == ImagesNext /\ Observe

ObservedSpec == ObservedInit /\ [][ObservedNext]_<<vars, history>>

-----------------------------------------------------------------------------
RowKeys == {images[i].key : i \in DOMAIN images}

\* The calls whose object is in the bucket and whose row is not yet written.
Storing == {p \in Call : pc[p] \in {"upload.deactivate", "upload.create"}}

\* Whatever overlaps, dies or is refused: a row, and a URL handed out, name an
\* object that is in the bucket, in the directory of the row's own user and
\* named by no other row; and the objects that no row names are those of
\* uploads in flight or of uploads that failed ("Upload to S3 first -- if this
\* fails we don't touch the DB", signature-image.service.ts).
BucketAndTableAgree ==
    /\ shown \in RowKeys \cup {NoKey}
    /\ RowKeys \subseteq objects
    /\ \A i \in DOMAIN images : images[i].key.user = images[i].user
    /\ Cardinality(RowKeys) = Len(images)
    /\ Cardinality(objects \ RowKeys) <= Cardinality(Storing) + failures

\* An image that was there when an upload was requested is out of use for good
\* once that upload is answered, though overlapping uploads leave a user with
\* several active images and updates of theirs may still be on their way:
\* nobody who looks later is shown it.
SupersededStaysInactive == \A i \in superseded : ~images[i].isActive

\* A user whose calls come one after the other has exactly the image last
\* uploaded, or none after removing it; and whatever overlapping or dying
\* calls made of the table before, an upload that no other call of the user
\* overlaps and that succeeds puts it right.
LoneCallsDecide ==
    \A u \in known : Quiet(u) => ActiveImages(u) = {expected[u]} \ {0}

\* A disabled account, once its calls in flight are answered, stores, shows
\* and removes nothing until it is enabled again, whatever tokens it still
\* holds (user-jwt.strategy.ts: "Hard gate").
DisabledAccountStops ==
    [][\A u \in barred :
          /\ {i \in DOMAIN images' : images'[i].user = u} = ImagesOfUser(u)
          /\ \A i \in ImagesOfUser(u) : images'[i] = images[i]
          /\ {k \in objects' : k.user = u} = {k \in objects : k.user = u}
          /\ shown'.user # u
      ]_<<vars, history>>
=============================================================================
