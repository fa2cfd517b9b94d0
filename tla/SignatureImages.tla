--------------------------- MODULE SignatureImages ---------------------------
(***************************************************************************)
(* SignatureImageService: a user uploads a picture of the handwritten      *)
(* signature, looks at it, and removes it.  The picture is an object in S3 *)
(* and a row in the database, two stores that no transaction joins.        *)
(*                                                                         *)
(* pc[p] names what call p awaits and ctx[p] its local variables, as in    *)
(* Calls.  The row of an image is its position in the table, 0 is null,    *)
(* and an S3 key is the user's directory and a fresh uuid, here a number.  *)
(***************************************************************************)
EXTENDS Access, Naturals, Sequences, FiniteSets

CONSTANTS Call,         \* identities for the calls that may be in flight
          Files,        \* the files users upload, of File
          MaxUploads,   \* bound: uuids drawn
          MaxFailures   \* bound: calls that die or that S3 refuses

File == {"png", "svg", "otherType", "tooLarge"}

ASSUME FilesAssumption == Files \subseteq File

VARIABLES images,    \* PersonalSignatureImage
          objects,   \* the keys of the objects in the bucket
          shown,     \* the key of the presigned URL that the last step handed out
          uuids,     \* how many uuids have been drawn
          pc, ctx, failures

None == "none"

ASSUME UserAssumption == None \notin User

Key   == [user : User, uuid : Nat]
NoKey == [user |-> None, uuid |-> 0]
Image == [user : User, key : Key, isActive : BOOLEAN]
Op    == {"upload", "get", "delete"}

Label == {"idle", "validate", "upload.put", "upload.deactivate",
          "upload.create", "get.find", "delete.find", "delete.update"}

Context ==
    [op : Op \cup {None}, user : User \cup {None}, key : Key \cup {NoKey},
     image : Nat]

NoContext == [op |-> None, user |-> None, key |-> NoKey, image |-> 0]

stores == <<images, objects, uuids>>
vars   == <<account, stores, shown, pc, ctx, failures>>

ImagesInit ==
    /\ account = [u \in User |-> "enabled"]
    /\ images = << >>
    /\ objects = {}
    /\ shown = NoKey
    /\ uuids = 0
    /\ pc = [p \in Call |-> "idle"]
    /\ ctx = [p \in Call |-> NoContext]
    /\ failures = 0

Goto(p, label, c) ==
    /\ pc' = [pc EXCEPT ![p] = label]
    /\ ctx' = [ctx EXCEPT ![p] = c]

Answer(p) == Goto(p, "idle", NoContext)

\* where: { userId, isActive: true }
ActiveImages(u) ==
    {i \in DOMAIN images : images[i].user = u /\ images[i].isActive}

ImagesOfUser(u) == {i \in DOMAIN images : images[i].user = u}

\* findFirst without orderBy: any row that matches, 0 when none does.
FindFirst(rows) == IF rows = {} THEN {0} ELSE rows

\* updateMany and update: the rows given, with isActive false.
Deactivate(rows) ==
    images' = [i \in DOMAIN images |->
                  [images[i] EXCEPT !.isActive = @ /\ i \notin rows]]

UploadRoom ==
    uuids + Cardinality({p \in Call : pc[p] = "validate" /\ ctx[p].op = "upload"})
        < MaxUploads

-----------------------------------------------------------------------------
\* A request with a full token reaches a route, and the guard looks u up.
Request(p, c) ==
    /\ pc[p] = "idle"
    /\ Goto(p, "validate", c)
    /\ UNCHANGED <<account, stores, failures>>

StartUpload(p, u) ==
    /\ UploadRoom
    /\ Request(p, [NoContext EXCEPT !.op = "upload", !.user = u])

StartGet(p, u) ==
    Request(p, [NoContext EXCEPT !.op = "get", !.user = u])

StartDelete(p, u) ==
    Request(p, [NoContext EXCEPT !.op = "delete", !.user = u])

\* The guard turns the request down.
Refuse(p) ==
    /\ pc[p] = "validate"
    /\ ~Validate(ctx[p].user)
    /\ Answer(p)
    /\ UNCHANGED <<account, stores, failures>>

\* The guard lets the request into the handler of a GET or DELETE.
Enter(p) ==
    /\ pc[p] = "validate"
    /\ Validate(ctx[p].user)
    /\ \/ ctx[p].op = "get" /\ Goto(p, "get.find", ctx[p])
       \/ ctx[p].op = "delete" /\ Goto(p, "delete.find", ctx[p])
    /\ UNCHANGED <<account, stores, failures>>

-----------------------------------------------------------------------------
(* upload(): POST /signature/image/upload *)

Accepted(f) == f \in {"png", "svg"}

\* Variant: the key is not passed on to the statements that need it.
EnterUploadWithoutKey(p) ==
    /\ pc[p] = "validate" /\ ctx[p].op = "upload"
    /\ Validate(ctx[p].user)
    /\ Goto(p, "upload.put", ctx[p])
    /\ uuids' = uuids + 1
    /\ UNCHANGED <<account, images, objects, failures>>

\* The guard lets the request in, its body is read into memory, and the handler
\* checks the file and draws the uuid before its first await.
EnterUpload(p) ==
    /\ pc[p] = "validate" /\ ctx[p].op = "upload"
    /\ Validate(ctx[p].user)
    /\ \E f \in Files :
          \/ ~Accepted(f) /\ Answer(p) /\ UNCHANGED uuids
          \/ /\ Accepted(f)
             /\ uuids' = uuids + 1
             /\ Goto(p, "upload.put",
                     [ctx[p] EXCEPT !.key = [user |-> ctx[p].user,
                                             uuid |-> uuids + 1]])
    /\ UNCHANGED <<account, images, objects, failures>>

UploadPut(p) ==
    /\ pc[p] = "upload.put"
    /\ objects' = objects \cup {ctx[p].key}
    /\ Goto(p, "upload.deactivate", ctx[p])
    /\ UNCHANGED <<account, images, uuids, failures>>

\* Variant: the error is logged and swallowed, as S3Service.delete does.
PutFailsSilently(p) ==
    /\ pc[p] = "upload.put"
    /\ failures < MaxFailures
    /\ failures' = failures + 1
    /\ objects' \in {objects, objects \cup {ctx[p].key}}
    /\ Goto(p, "upload.deactivate", ctx[p])
    /\ UNCHANGED <<account, images, uuids>>

\* S3 refuses, or stores the object and its answer is lost: upload() throws,
\* and no query is made.
PutFails(p) ==
    /\ pc[p] = "upload.put"
    /\ failures < MaxFailures
    /\ failures' = failures + 1
    /\ objects' \in {objects, objects \cup {ctx[p].key}}
    /\ Answer(p)
    /\ UNCHANGED <<account, images, uuids>>

\* Variant: the one active image the database returns first, as in delete().
DeactivateFirst(p) ==
    /\ pc[p] = "upload.deactivate"
    /\ \E i \in FindFirst(ActiveImages(ctx[p].user)) : Deactivate({i})
    /\ Goto(p, "upload.create", ctx[p])
    /\ UNCHANGED <<account, objects, uuids, failures>>

\* Every active image of the user, not only the one expected.
UploadDeactivate(p) ==
    /\ pc[p] = "upload.deactivate"
    /\ Deactivate(ActiveImages(ctx[p].user))
    /\ Goto(p, "upload.create", ctx[p])
    /\ UNCHANGED <<account, objects, uuids, failures>>

UploadCreate(p) ==
    /\ pc[p] = "upload.create"
    /\ images' = Append(images, [user |-> ctx[p].user, key |-> ctx[p].key,
                                 isActive |-> TRUE])
    /\ Answer(p)
    /\ UNCHANGED <<account, objects, uuids, failures>>

-----------------------------------------------------------------------------
(* get(): GET /signature/image.  getPresignedUrl(), awaited after the query, *)
(* signs the URL in the process and asks neither store; an image's key never *)
(* changes, so the answer is settled by the query and given in its step.     *)

GetFind(p) ==
    /\ pc[p] = "get.find"
    /\ \E i \in FindFirst(ActiveImages(ctx[p].user)) :
          shown' = IF i = 0 THEN NoKey ELSE images[i].key
    /\ Answer(p)
    /\ UNCHANGED <<account, stores, failures>>

(* delete(): DELETE /signature/image *)

\* Variant: isActive missing from the filter.
DeleteFindAny(p) ==
    /\ pc[p] = "delete.find"
    /\ \E i \in FindFirst(ImagesOfUser(ctx[p].user)) :
          \/ i = 0 /\ Answer(p)
          \/ i # 0 /\ Goto(p, "delete.update", [ctx[p] EXCEPT !.image = i])
    /\ UNCHANGED <<account, stores, failures>>

DeleteFind(p) ==
    /\ pc[p] = "delete.find"
    /\ \E i \in FindFirst(ActiveImages(ctx[p].user)) :
          \/ i = 0 /\ Answer(p)
          \/ i # 0 /\ Goto(p, "delete.update", [ctx[p] EXCEPT !.image = i])
    /\ UNCHANGED <<account, stores, failures>>

\* The row is deactivated; the object stays in the bucket.
DeleteUpdate(p) ==
    /\ pc[p] = "delete.update"
    /\ Deactivate({ctx[p].image})
    /\ Answer(p)
    /\ UNCHANGED <<account, objects, uuids, failures>>

-----------------------------------------------------------------------------
\* A call dies at what it awaits; what it has written stays.
Fail(p) ==
    /\ pc[p] # "idle"
    /\ failures < MaxFailures
    /\ failures' = failures + 1
    /\ Answer(p)
    /\ UNCHANGED <<account, stores>>

Manage ==
    /\ \E u \in User, a \in Account : ChangeAccount(u, a)
    /\ UNCHANGED <<stores, pc, ctx, failures>>

ImagesStart(p, u) == StartUpload(p, u) \/ StartGet(p, u) \/ StartDelete(p, u)

ImagesStep(p) ==
    \/ Refuse(p) \/ Enter(p) \/ EnterUpload(p)
    \/ UploadPut(p) \/ PutFails(p) \/ UploadDeactivate(p) \/ UploadCreate(p)
    \/ DeleteFind(p) \/ DeleteUpdate(p)

\* Only a get hands out a URL.
ImagesNext ==
    \/ /\ \/ \E p \in Call, u \in User : ImagesStart(p, u)
          \/ \E p \in Call : ImagesStep(p) \/ Fail(p)
          \/ Manage
       /\ shown' = NoKey
    \/ \E p \in Call : GetFind(p)

ImagesSpec == ImagesInit /\ [][ImagesNext]_vars

ImagesTypeOK ==
    /\ AccountsOK
    /\ images \in Seq(Image)
    /\ objects \in SUBSET Key
    /\ shown \in Key \cup {NoKey}
    /\ uuids \in Nat
    /\ pc \in [Call -> Label]
    /\ ctx \in [Call -> Context]
    /\ failures \in Nat
=============================================================================
