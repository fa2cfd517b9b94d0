---------------------------- MODULE ImagesProofs ----------------------------
(***************************************************************************)
(* Proofs, for any accounts, calls, files and bounds, of what the bucket   *)
(* and the table of signature images keep to however uploads overlap, fail *)
(* and die.  Rows are only added and an inactive one stays so (RowsStay);  *)
(* what a call in flight knows of them therefore stays true (Knows).  That *)
(* the two stores agree, and that lone calls decide which image is active, *)
(* is the second half: uuids are drawn once, so the keys on rows and in    *)
(* the hands of calls are all different (Apart); an object that no row     *)
(* names is there for an upload that is between its two stores, or for a   *)
(* failure (Accounted); and a call that has met no other one of its user   *)
(* has done to the active images all that was done since it was requested  *)
(* (Decided).                                                              *)
(***************************************************************************)
EXTENDS ImageProperties, TLAPS, FiniteSetTheorems

RowsStay ==
    \A i \in DOMAIN images :
        /\ i \in DOMAIN images'
        /\ images'[i].user = images[i].user
        /\ images'[i].key = images[i].key
        /\ images'[i].isActive => images[i].isActive

Uploading == {"upload.put", "upload.deactivate", "upload.create"}

\* What the local variables c of a call that waits at l refer to.
Knows(l, c) ==
    /\ l # "idle" => c.user \in User
    /\ l \in Uploading => c.key \in Key /\ c.key.user = c.user
    /\ l = "delete.update" => /\ c.image \in DOMAIN images
                              /\ images[c.image].user = c.user

KeysAreTheirUsers == \A i \in DOMAIN images : images[i].key.user = images[i].user

ImagesKnown ==
    /\ ImagesTypeOK
    /\ \A p \in Call : Knows(pc[p], ctx[p])
    /\ KeysAreTheirUsers

-----------------------------------------------------------------------------
\* Goto changes the label and the local variables of its call only.
LEMMA GotoTypes ==
    ASSUME ImagesTypeOK, NEW p \in Call, NEW l \in Label, NEW c \in Context,
           Goto(p, l, c)
    PROVE  /\ pc' \in [Call -> Label] /\ ctx' \in [Call -> Context]
           /\ pc'[p] = l /\ ctx'[p] = c
           /\ \A q \in Call \ {p} : pc'[q] = pc[q] /\ ctx'[q] = ctx[q]
  BY DEF Goto, ImagesTypeOK

LEMMA NoContextType == NoContext \in Context /\ "idle" \in Label
  BY DEF NoContext, Context, Label

\* Positions of a sequence of images.
LEMMA ImageRows ==
    ASSUME images \in Seq(Image)
    PROVE  /\ DOMAIN images = 1..Len(images) /\ Len(images) \in Nat
           /\ \A i \in DOMAIN images : i \in Nat \ {0} /\ images[i] \in Image
<1>1. DOMAIN images = 1..Len(images) /\ Len(images) \in Nat
  OBVIOUS
<1>2. \A i \in 1..Len(images) : images[i] \in Image
  OBVIOUS
<1> QED
  BY <1>1, <1>2

LEMMA SequencesAreFunctions ==
    ASSUME NEW S, NEW n \in Nat, NEW f \in [1..n -> S]
    PROVE  f \in Seq(S)
  OBVIOUS

\* Deactivated rows are rows, and nothing but isActive changes.
LEMMA Deactivation ==
    ASSUME images \in Seq(Image), NEW rows, Deactivate(rows)
    PROVE  /\ images' \in Seq(Image) /\ RowsStay
           /\ DOMAIN images' = DOMAIN images /\ Len(images') = Len(images)
           /\ \A i \in DOMAIN images : i \notin rows => images'[i] = images[i]
           /\ \A i \in DOMAIN images : i \in rows => ~images'[i].isActive
<1>1. /\ DOMAIN images = 1..Len(images) /\ Len(images) \in Nat
      /\ \A i \in DOMAIN images : images[i] \in Image
  BY ImageRows
<1>2. /\ DOMAIN images' = DOMAIN images
      /\ \A i \in DOMAIN images :
            images'[i] = [images[i] EXCEPT !.isActive = @ /\ i \notin rows]
  BY DEF Deactivate
<1>3. ASSUME NEW i \in DOMAIN images
      PROVE  /\ images'[i] \in Image
             /\ images'[i].user = images[i].user /\ images'[i].key = images[i].key
             /\ images'[i].isActive = (images[i].isActive /\ i \notin rows)
             /\ i \notin rows => images'[i] = images[i]
  <2>1. images'[i] = [images[i] EXCEPT !.isActive = images[i].isActive /\ i \notin rows]
    BY <1>2
  <2>2. images[i] \in [user : User, key : Key, isActive : BOOLEAN]
    BY <1>1 DEF Image
  <2>3. (images[i].isActive /\ i \notin rows) \in BOOLEAN
    OBVIOUS
  <2>4. /\ images'[i] \in Image
        /\ images'[i].user = images[i].user /\ images'[i].key = images[i].key
        /\ images'[i].isActive = (images[i].isActive /\ i \notin rows)
    BY <2>1, <2>2, <2>3 DEF Image
  <2>5. i \notin rows => images'[i] = images[i]
    <3>1. ASSUME i \notin rows PROVE (images[i].isActive /\ i \notin rows) = images[i].isActive
      BY <3>1, <2>2
    <3> QED
      BY <2>1, <2>2, <3>1
  <2> QED
    BY <2>4, <2>5
<1>4. images' \in [1..Len(images) -> Image]
  <2>1. images' = [i \in DOMAIN images |-> images'[i]]
    BY DEF Deactivate
  <2> QED
    BY <2>1, <1>1, <1>3
<1>5. images' \in Seq(Image)
  BY <1>4, <1>1, SequencesAreFunctions
<1>6. Len(images') = Len(images)
  BY <1>1, <1>4, <1>5
<1>7. RowsStay /\ \A i \in DOMAIN images : i \in rows => ~images'[i].isActive
  BY <1>2, <1>3 DEF RowsStay
<1> QED
  BY <1>2, <1>3, <1>5, <1>6, <1>7

\* A new row comes after the others.
LEMMA Insertion ==
    ASSUME images \in Seq(Image), NEW x \in Image, images' = Append(images, x)
    PROVE  /\ images' \in Seq(Image) /\ RowsStay
           /\ Len(images') = Len(images) + 1
           /\ DOMAIN images' = DOMAIN images \cup {Len(images) + 1}
           /\ images'[Len(images) + 1] = x
           /\ \A i \in DOMAIN images : images'[i] = images[i]
<1>1. /\ DOMAIN images = 1..Len(images) /\ Len(images) \in Nat
  BY ImageRows
<1>2. /\ images' \in Seq(Image) /\ Len(images') = Len(images) + 1
      /\ \A i \in 1..Len(images) : images'[i] = images[i]
      /\ images'[Len(images) + 1] = x
  BY <1>1
<1>3. DOMAIN images' = 1..(Len(images) + 1)
  BY <1>2
<1> QED
  BY <1>1, <1>2, <1>3 DEF RowsStay

-----------------------------------------------------------------------------
\* The columns of a step that the calls do not share, and its call's knowledge.
LEMMA CallStep ==
    ASSUME ImagesKnown, RowsStay, NEW p \in Call, NEW l \in Label,
           NEW c \in Context, Goto(p, l, c), Knows(l, c)',
           images' \in Seq(Image), objects' \in SUBSET Key,
           shown' \in Key \cup {NoKey}, uuids' \in Nat, failures' \in Nat,
           AccountsOK', KeysAreTheirUsers'
    PROVE  ImagesKnown'
<1>1. /\ pc' \in [Call -> Label] /\ ctx' \in [Call -> Context]
      /\ pc'[p] = l /\ ctx'[p] = c
      /\ \A q \in Call \ {p} : pc'[q] = pc[q] /\ ctx'[q] = ctx[q]
  BY GotoTypes DEF ImagesKnown
<1>2. ASSUME NEW q \in Call PROVE Knows(pc[q], ctx[q])'
  <2>1. CASE q = p
    <3>1. Knows(l, c)'
      OBVIOUS
    <3> QED
      BY <2>1, <3>1, <1>1 DEF Knows
  <2>2. CASE q # p
    <3>1. pc'[q] = pc[q] /\ ctx'[q] = ctx[q]
      BY <1>1, <2>2
    <3>2. Knows(pc[q], ctx[q])
      BY DEF ImagesKnown
    <3> QED
      BY <3>1, <3>2 DEF Knows, RowsStay
  <2> QED
    BY <2>1, <2>2
<1> QED
  BY <1>1, <1>2 DEF ImagesKnown, ImagesTypeOK

\* Nothing but the labels, the variables of calls, and what is shown changes.
LEMMA ReadStep ==
    ASSUME ImagesKnown, NEW p \in Call, NEW l \in Label, NEW c \in Context,
           Goto(p, l, c), Knows(l, c), shown' \in Key \cup {NoKey},
           UNCHANGED <<account, images, objects>>, uuids' \in Nat, failures' \in Nat
    PROVE  ImagesKnown' /\ RowsStay
<1>1. RowsStay
  BY DEF RowsStay
<1>2. Knows(l, c)' /\ KeysAreTheirUsers'
  BY DEF Knows, KeysAreTheirUsers, ImagesKnown
<1>3. images' \in Seq(Image) /\ objects' \in SUBSET Key /\ AccountsOK'
  BY DEF ImagesKnown, ImagesTypeOK, AccountsOK
<1> QED
  BY <1>1, <1>2, <1>3, CallStep

\* An answered call knows nothing.
LEMMA AnswerStep ==
    ASSUME ImagesKnown, NEW p \in Call, Answer(p), shown' \in Key \cup {NoKey},
           UNCHANGED <<account, images, objects>>, uuids' \in Nat, failures' \in Nat
    PROVE  ImagesKnown' /\ RowsStay
<1>1. Goto(p, "idle", NoContext) /\ Knows("idle", NoContext)
  BY DEF Answer, Knows, Uploading
<1> QED
  BY <1>1, NoContextType, ReadStep

\* The types that the steps below refer to.
LEMMA Known ==
    ASSUME ImagesKnown, NEW p \in Call
    PROVE  /\ images \in Seq(Image) /\ objects \in SUBSET Key
           /\ uuids \in Nat /\ failures \in Nat /\ AccountsOK /\ KeysAreTheirUsers
           /\ pc[p] \in Label /\ ctx[p] \in Context /\ Knows(pc[p], ctx[p])
  BY DEF ImagesKnown, ImagesTypeOK

\* A request starts with the account that its token names.
LEMMA StartStep ==
    ASSUME ImagesKnown, NEW p \in Call, NEW u \in User, ImagesStart(p, u),
           shown' = NoKey
    PROVE  ImagesKnown' /\ RowsStay
<1>1. PICK op \in Op :
          /\ Goto(p, "validate", [NoContext EXCEPT !.op = op, !.user = u])
          /\ UNCHANGED <<account, images, objects, uuids, failures>>
  BY DEF ImagesStart, StartUpload, StartGet, StartDelete, Request, stores, Op
<1> DEFINE c == [NoContext EXCEPT !.op = op, !.user = u]
<1>2. c \in Context /\ c.user = u
  BY DEF NoContext, Context
<1>3. Knows("validate", c) /\ "validate" \in Label
  BY <1>2 DEF Knows, Uploading, Label
<1>4. uuids' \in Nat /\ failures' \in Nat
  BY <1>1, Known
<1>5. Goto(p, "validate", c)
  BY <1>1
<1> HIDE DEF c
<1> QED
  BY <1>1, <1>2, <1>3, <1>4, <1>5, ReadStep

LEMMA RefuseStep ==
    ASSUME ImagesKnown, NEW p \in Call, Refuse(p) \/ Fail(p), shown' = NoKey
    PROVE  ImagesKnown' /\ RowsStay
<1>1. /\ Answer(p) /\ UNCHANGED <<account, images, objects, uuids>>
      /\ failures' \in {failures, failures + 1}
  BY DEF Refuse, Fail, stores
<1>2. uuids' \in Nat /\ failures' \in Nat
  BY <1>1, Known
<1> QED
  BY <1>1, <1>2, AnswerStep

LEMMA EnterStep ==
    ASSUME ImagesKnown, NEW p \in Call, Enter(p), shown' = NoKey
    PROVE  ImagesKnown' /\ RowsStay
<1>1. PICK l \in {"get.find", "delete.find"} : Goto(p, l, ctx[p])
  BY DEF Enter
<1>2. /\ pc[p] = "validate" /\ UNCHANGED <<account, images, objects, uuids, failures>>
  BY DEF Enter, stores
<1>3. Knows(l, ctx[p]) /\ l \in Label /\ ctx[p] \in Context
  BY <1>2, Known DEF Knows, Uploading, Label
<1>4. uuids' \in Nat /\ failures' \in Nat
  BY <1>2, Known
<1> QED
  BY <1>1, <1>2, <1>3, <1>4, ReadStep

LEMMA EnterUploadStep ==
    ASSUME ImagesKnown, NEW p \in Call, EnterUpload(p), shown' = NoKey
    PROVE  ImagesKnown' /\ RowsStay
<1> DEFINE key == [user |-> ctx[p].user, uuid |-> uuids + 1]
           c   == [ctx[p] EXCEPT !.key = key]
<1>1. /\ pc[p] = "validate" /\ UNCHANGED <<account, images, objects, failures>>
  BY DEF EnterUpload
<1>2. failures' \in Nat
  BY <1>1, Known
<1>3. CASE Answer(p) /\ UNCHANGED uuids
  <2>1. uuids' \in Nat
    BY <1>3, Known
  <2> QED
    BY <1>1, <1>2, <1>3, <2>1, AnswerStep
<1>4. CASE uuids' = uuids + 1 /\ Goto(p, "upload.put", c)
  <2>1. ctx[p].user \in User /\ uuids + 1 \in Nat
    BY <1>1, Known DEF Knows
  <2>2. key \in Key /\ key.user = ctx[p].user
    BY <2>1 DEF Key
  <2> HIDE DEF key
  <2>3. c \in Context /\ c.user = ctx[p].user /\ c.key = key
    BY <2>2, Known DEF Context
  <2>4. Knows("upload.put", c) /\ "upload.put" \in Label
    BY <2>1, <2>2, <2>3 DEF Knows, Uploading, Label
  <2> HIDE DEF c
  <2> QED
    BY <1>1, <1>2, <1>4, <2>1, <2>3, <2>4, ReadStep
<1> QED
  BY <1>3, <1>4 DEF EnterUpload

LEMMA PutStep ==
    ASSUME ImagesKnown, NEW p \in Call, UploadPut(p), shown' = NoKey
    PROVE  ImagesKnown' /\ RowsStay
<1>1. PICK c \in Context : c = ctx[p]
  BY Known
<1>2. /\ pc[p] = "upload.put" /\ Goto(p, "upload.deactivate", c)
      /\ objects' = objects \cup {c.key}
      /\ UNCHANGED <<account, images, uuids, failures>>
  BY <1>1 DEF UploadPut
<1>3. RowsStay /\ KeysAreTheirUsers' /\ AccountsOK'
  BY <1>2, Known DEF RowsStay, KeysAreTheirUsers, AccountsOK
<1>4. Knows("upload.put", c)
  BY <1>1, <1>2, Known
<1>5. c.key \in Key /\ Knows("upload.deactivate", c)'
  BY <1>4 DEF Knows, Uploading
<1>6. images' \in Seq(Image) /\ objects' \in SUBSET Key /\ uuids' \in Nat
      /\ failures' \in Nat
  BY <1>2, <1>5, Known
<1> QED
  BY <1>2, <1>3, <1>5, <1>6, CallStep DEF Label

LEMMA PutFailsStep ==
    ASSUME ImagesKnown, NEW p \in Call, PutFails(p), shown' = NoKey
    PROVE  ImagesKnown' /\ RowsStay
<1>1. /\ pc[p] = "upload.put" /\ Goto(p, "idle", NoContext)
      /\ objects' \in {objects, objects \cup {ctx[p].key}}
      /\ failures' = failures + 1
      /\ UNCHANGED <<account, images, uuids>>
  BY DEF PutFails, Answer
<1>2. RowsStay /\ KeysAreTheirUsers' /\ AccountsOK'
  BY <1>1, Known DEF RowsStay, KeysAreTheirUsers, AccountsOK
<1>3. Knows("upload.put", ctx[p])
  BY <1>1, Known
<1>4. ctx[p].key \in Key /\ Knows("idle", NoContext)'
  BY <1>3 DEF Knows, Uploading
<1>5. images' \in Seq(Image) /\ objects' \in SUBSET Key /\ uuids' \in Nat
      /\ failures' \in Nat
  BY <1>1, <1>4, Known
<1> QED
  BY <1>1, <1>2, <1>4, <1>5, NoContextType, CallStep

LEMMA UploadDeactivateStep ==
    ASSUME ImagesKnown, NEW p \in Call, UploadDeactivate(p), shown' = NoKey
    PROVE  ImagesKnown' /\ RowsStay
<1>1. PICK c \in Context : c = ctx[p]
  BY Known
<1>2. /\ pc[p] = "upload.deactivate" /\ Goto(p, "upload.create", c)
      /\ Deactivate(ActiveImages(c.user))
      /\ UNCHANGED <<account, objects, uuids, failures>>
  BY <1>1 DEF UploadDeactivate
<1>3. images \in Seq(Image)
  BY Known
<1>4. /\ RowsStay /\ images' \in Seq(Image) /\ DOMAIN images' = DOMAIN images
  BY <1>2, <1>3, Deactivation
<1>5. KeysAreTheirUsers' /\ AccountsOK'
  BY <1>2, <1>4, Known DEF RowsStay, KeysAreTheirUsers, AccountsOK
<1>6. Knows("upload.deactivate", c)
  BY <1>1, <1>2, Known
<1>7. Knows("upload.create", c)'
  BY <1>6 DEF Knows, Uploading
<1>8. objects' \in SUBSET Key /\ uuids' \in Nat /\ failures' \in Nat
  BY <1>2, Known
<1> QED
  BY <1>2, <1>4, <1>5, <1>7, <1>8, CallStep DEF Label

\* The row that an upload inserts.
Uploads(c) == [user |-> c.user, key |-> c.key, isActive |-> TRUE]

LEMMA UploadCreateStep ==
    ASSUME ImagesKnown, NEW p \in Call, UploadCreate(p), shown' = NoKey
    PROVE  ImagesKnown' /\ RowsStay
<1>1. PICK x : x = Uploads(ctx[p])
  OBVIOUS
<1>2. /\ pc[p] = "upload.create" /\ Goto(p, "idle", NoContext)
      /\ images' = Append(images, x)
      /\ UNCHANGED <<account, objects, uuids, failures>>
  BY <1>1 DEF UploadCreate, Answer, Uploads
<1>3. Knows("upload.create", ctx[p]) /\ images \in Seq(Image)
  BY <1>2, Known
<1>4. x \in Image /\ x.key.user = x.user
  BY <1>1, <1>3 DEF Knows, Uploading, Image, Uploads
<1>5. /\ RowsStay /\ images' \in Seq(Image)
      /\ DOMAIN images' = DOMAIN images \cup {Len(images) + 1}
      /\ images'[Len(images) + 1] = x
      /\ \A i \in DOMAIN images : images'[i] = images[i]
  BY <1>2, <1>3, <1>4, Insertion
<1>6. KeysAreTheirUsers' /\ AccountsOK'
  BY <1>2, <1>4, <1>5, Known DEF KeysAreTheirUsers, AccountsOK
<1>7. Knows("idle", NoContext)'
  BY DEF Knows, Uploading
<1>8. objects' \in SUBSET Key /\ uuids' \in Nat /\ failures' \in Nat
  BY <1>2, Known
<1> QED
  BY <1>2, <1>5, <1>6, <1>7, <1>8, NoContextType, CallStep

LEMMA GetStep ==
    ASSUME ImagesKnown, NEW p \in Call, GetFind(p)
    PROVE  ImagesKnown' /\ RowsStay
<1>1. PICK i \in FindFirst(ActiveImages(ctx[p].user)) :
          shown' = IF i = 0 THEN NoKey ELSE images[i].key
  BY DEF GetFind
<1>2. i \in DOMAIN images \/ i = 0
  BY <1>1 DEF FindFirst, ActiveImages
<1>3. \A j \in DOMAIN images : images[j].key \in Key
  BY Known, ImageRows DEF Image
<1>4. shown' \in Key \cup {NoKey}
  BY <1>1, <1>2, <1>3
<1>5. /\ Answer(p) /\ UNCHANGED <<account, images, objects, uuids, failures>>
  BY DEF GetFind, stores
<1>6. uuids' \in Nat /\ failures' \in Nat
  BY <1>5, Known
<1> QED
  BY <1>4, <1>5, <1>6, AnswerStep

LEMMA DeleteFindStep ==
    ASSUME ImagesKnown, NEW p \in Call, DeleteFind(p), shown' = NoKey
    PROVE  ImagesKnown' /\ RowsStay
<1>1. PICK i \in FindFirst(ActiveImages(ctx[p].user)) :
          \/ i = 0 /\ Answer(p)
          \/ i # 0 /\ Goto(p, "delete.update", [ctx[p] EXCEPT !.image = i])
  BY DEF DeleteFind
<1>2. /\ pc[p] = "delete.find" /\ UNCHANGED <<account, images, objects, uuids, failures>>
  BY DEF DeleteFind, stores
<1>3. uuids' \in Nat /\ failures' \in Nat
  BY <1>2, Known
<1>4. CASE Answer(p)
  BY <1>2, <1>3, <1>4, AnswerStep
<1>5. CASE i # 0 /\ Goto(p, "delete.update", [ctx[p] EXCEPT !.image = i])
  <2>1. PICK c : c = [ctx[p] EXCEPT !.image = i]
    OBVIOUS
  <2>2. i \in DOMAIN images /\ images[i].user = ctx[p].user /\ i \in Nat
    BY <1>1, <1>5, Known, ImageRows DEF FindFirst, ActiveImages
  <2>3. c \in Context /\ c.user = ctx[p].user /\ c.image = i
    BY <2>1, <2>2, Known DEF Context
  <2>4. c.user \in User
    BY <1>2, <2>3, Known DEF Knows
  <2>5. Knows("delete.update", c)
    BY <2>2, <2>3, <2>4 DEF Knows, Uploading
  <2> QED
    BY <1>2, <1>3, <1>5, <2>1, <2>3, <2>5, ReadStep DEF Label
<1> QED
  BY <1>1, <1>4, <1>5

LEMMA DeleteUpdateStep ==
    ASSUME ImagesKnown, NEW p \in Call, DeleteUpdate(p), shown' = NoKey
    PROVE  ImagesKnown' /\ RowsStay
<1>1. /\ pc[p] = "delete.update" /\ Goto(p, "idle", NoContext)
      /\ Deactivate({ctx[p].image})
      /\ UNCHANGED <<account, objects, uuids, failures>>
  BY DEF DeleteUpdate, Answer
<1>2. images \in Seq(Image)
  BY Known
<1>3. /\ RowsStay /\ images' \in Seq(Image) /\ DOMAIN images' = DOMAIN images
  BY <1>1, <1>2, Deactivation
<1>4. KeysAreTheirUsers' /\ AccountsOK'
  BY <1>1, <1>3, Known DEF RowsStay, KeysAreTheirUsers, AccountsOK
<1>5. Knows("idle", NoContext)'
  BY DEF Knows, Uploading
<1>6. objects' \in SUBSET Key /\ uuids' \in Nat /\ failures' \in Nat
  BY <1>1, Known
<1> QED
  BY <1>1, <1>3, <1>4, <1>5, <1>6, NoContextType, CallStep

LEMMA ManageStep ==
    ASSUME ImagesKnown, Manage, shown' = NoKey
    PROVE  ImagesKnown' /\ RowsStay
<1>1. PICK u \in User, a \in Account : account' = [account EXCEPT ![u] = a]
  BY DEF Manage, ChangeAccount
<1>2. UNCHANGED <<images, objects, uuids, pc, ctx, failures>>
  BY DEF Manage, stores
<1>3. AccountsOK'
  BY <1>1 DEF ImagesKnown, ImagesTypeOK, AccountsOK
<1> QED
  BY <1>2, <1>3 DEF ImagesKnown, ImagesTypeOK, Knows, KeysAreTheirUsers, RowsStay

LEMMA ImagesStepKnown ==
    ASSUME ImagesKnown, [ImagesNext]_vars
    PROVE  ImagesKnown' /\ RowsStay
<1>1. CASE UNCHANGED vars
  BY <1>1 DEF vars, stores, ImagesKnown, ImagesTypeOK, AccountsOK, Knows,
              KeysAreTheirUsers, RowsStay
<1>2. ASSUME NEW p \in Call, NEW u \in User, ImagesStart(p, u), shown' = NoKey
      PROVE  ImagesKnown' /\ RowsStay
  BY <1>2, StartStep
<1>3. ASSUME NEW p \in Call, ImagesStep(p) \/ Fail(p), shown' = NoKey
      PROVE  ImagesKnown' /\ RowsStay
  BY <1>3, RefuseStep, EnterStep, EnterUploadStep, PutStep, PutFailsStep,
     UploadDeactivateStep, UploadCreateStep, DeleteFindStep, DeleteUpdateStep
     DEF ImagesStep
<1> QED
  BY <1>1, <1>2, <1>3, ManageStep, GetStep DEF ImagesNext

LEMMA ImagesInitKnown == ImagesInit => ImagesKnown
<1> SUFFICES ASSUME ImagesInit PROVE ImagesKnown
  OBVIOUS
<1>1. account \in [User -> Account]
  BY DEF ImagesInit, Account
<1>2. images \in Seq(Image) /\ DOMAIN images = {}
  BY DEF ImagesInit
<1>3. pc \in [Call -> Label] /\ ctx \in [Call -> Context]
  BY NoContextType DEF ImagesInit
<1>4. \A p \in Call : Knows(pc[p], ctx[p])
  BY DEF ImagesInit, Knows, Uploading
<1> QED
  BY <1>1, <1>2, <1>3, <1>4
     DEF ImagesInit, ImagesKnown, ImagesTypeOK, AccountsOK, KeysAreTheirUsers

-----------------------------------------------------------------------------
LEMMA ObservedKnown == ObservedSpec => []ImagesKnown
<1>1. ObservedInit => ImagesKnown
  BY ImagesInitKnown DEF ObservedInit
<1>2. ImagesKnown /\ [ObservedNext]_<<vars, history>> => ImagesKnown'
  BY ImagesStepKnown DEF ObservedNext
<1> QED
  BY <1>1, <1>2, PTL DEF ObservedSpec

\* Rows, keys and the local variables of calls keep their types.
THEOREM ImagesTypeCorrectness == ObservedSpec => []ImagesTypeOK
<1>1. ImagesKnown => ImagesTypeOK
  BY DEF ImagesKnown
<1> QED
  BY <1>1, ObservedKnown, PTL

-----------------------------------------------------------------------------
Stays(p) == pc'[p] = pc[p] /\ ctx'[p] = ctx[p]

Starts(p) == pc[p] = "idle" /\ pc'[p] = "validate" /\ images' = images

Enters(p) ==
    /\ pc[p] = "validate" /\ Validate(ctx[p].user)
    /\ \/ pc'[p] \in {"get.find", "delete.find"}
       \/ pc'[p] = "upload.put" /\ ctx[p].op = "upload"

GoesOn(p) ==
    \/ pc[p] = "upload.put" /\ pc'[p] = "upload.deactivate"
    \/ /\ pc[p] = "upload.deactivate" /\ pc'[p] = "upload.create"
       /\ Deactivate(ActiveImages(ctx[p].user))
    \/ pc[p] = "delete.find" /\ pc'[p] = "delete.update"

\* All that a step can do to a call.
Path(p) ==
    \/ Stays(p) \/ Starts(p) \/ pc'[p] = "idle"
    \/ (Enters(p) \/ GoesOn(p)) /\ ctx'[p].user = ctx[p].user

\* A step moves one call, by one edge of its path.
LEMMA OneMoves ==
    ASSUME ImagesTypeOK, NEW q \in Call, NEW l, NEW c, Goto(q, l, c)
    PROVE  /\ pc'[q] = l /\ ctx'[q] = c
           /\ \A p \in Call \ {q} : Stays(p)
  BY DEF Goto, ImagesTypeOK, Stays

LEMMA Paths ==
    ASSUME ImagesTypeOK, [ImagesNext]_vars, NEW p \in Call
    PROVE  Path(p)
<1>1. CASE UNCHANGED <<pc, ctx>>
  BY <1>1 DEF Path, Stays
<1>2. ASSUME NEW q \in Call, Answer(q) PROVE Path(p)
  BY <1>2, OneMoves DEF Answer, Path
<1>3. ASSUME NEW q \in Call, NEW u \in User, ImagesStart(q, u) PROVE Path(p)
  <2>1. PICK c : Goto(q, "validate", c) /\ pc[q] = "idle" /\ images' = images
    BY <1>3 DEF ImagesStart, StartUpload, StartGet, StartDelete, Request, stores
  <2> QED
    BY <2>1, OneMoves DEF Path, Starts
<1>4. ASSUME NEW q \in Call, Enter(q) PROVE Path(p)
  <2>1. PICK l \in {"get.find", "delete.find"} : Goto(q, l, ctx[q])
    BY <1>4 DEF Enter
  <2>2. pc[q] = "validate" /\ Validate(ctx[q].user)
    BY <1>4 DEF Enter
  <2> QED
    BY <2>1, <2>2, OneMoves DEF Path, Enters
<1>5. ASSUME NEW q \in Call, EnterUpload(q) PROVE Path(p)
  <2>1. CASE Answer(q)
    BY <2>1, <1>2
  <2>2. ASSUME NEW k, Goto(q, "upload.put", [ctx[q] EXCEPT !.key = k])
        PROVE  Path(p)
    <3>1. [ctx[q] EXCEPT !.key = k].user = ctx[q].user
      BY DEF ImagesTypeOK, Context
    <3>2. pc[q] = "validate" /\ ctx[q].op = "upload" /\ Validate(ctx[q].user)
      BY <1>5 DEF EnterUpload
    <3>3. PICK c : c = [ctx[q] EXCEPT !.key = k]
      OBVIOUS
    <3>4. pc'[q] = "upload.put" /\ ctx'[q] = c /\ \A r \in Call \ {q} : Stays(r)
      BY <2>2, <3>3, OneMoves
    <3> QED
      BY <3>1, <3>2, <3>3, <3>4 DEF Path, Enters
  <2> QED
    BY <1>5, <2>1, <2>2 DEF EnterUpload
<1>6. ASSUME NEW q \in Call, UploadPut(q) \/ UploadDeactivate(q) PROVE Path(p)
  <2>1. \/ pc[q] = "upload.put" /\ Goto(q, "upload.deactivate", ctx[q])
        \/ /\ pc[q] = "upload.deactivate" /\ Goto(q, "upload.create", ctx[q])
           /\ Deactivate(ActiveImages(ctx[q].user))
    BY <1>6 DEF UploadPut, UploadDeactivate
  <2> QED
    BY <2>1, OneMoves DEF Path, GoesOn
<1>7. ASSUME NEW q \in Call, DeleteFind(q) PROVE Path(p)
  <2>1. CASE Answer(q)
    BY <2>1, <1>2
  <2>2. ASSUME NEW i, Goto(q, "delete.update", [ctx[q] EXCEPT !.image = i])
        PROVE  Path(p)
    <3>1. [ctx[q] EXCEPT !.image = i].user = ctx[q].user
      BY DEF ImagesTypeOK, Context
    <3> QED
      BY <1>7, <2>2, <3>1, OneMoves DEF Path, GoesOn, DeleteFind
  <2> QED
    BY <1>7, <2>1, <2>2 DEF DeleteFind
<1>8. ASSUME NEW q \in Call, ImagesStep(q) \/ Fail(q) \/ GetFind(q) PROVE Path(p)
  BY <1>8, <1>2, <1>4, <1>5, <1>6, <1>7
     DEF ImagesStep, Refuse, Fail, GetFind, PutFails, UploadCreate, DeleteUpdate
<1> QED
  BY <1>1, <1>3, <1>8 DEF ImagesNext, vars, Manage

-----------------------------------------------------------------------------
Inactive == {i \in DOMAIN images : ~images[i].isActive}

\* The rows that upload p is to supersede are its user's, and out of use when
\* only the insert is left.
Supersedes(p) ==
    /\ \/ pc[p] \in {"upload.put", "upload.deactivate"}
       \/ pc[p] = "validate" /\ ctx[p].op = "upload"
       => \A i \in before[p] : i \in DOMAIN images /\ images[i].user = ctx[p].user
    /\ pc[p] = "upload.create" => before[p] \subseteq Inactive

Superseding ==
    /\ ImagesKnown
    /\ \A p \in Call : Supersedes(p)
    /\ superseded \subseteq Inactive

\* An inactive row stays inactive.
LEMMA InactiveForGood ==
    ASSUME RowsStay
    PROVE  Inactive \subseteq Inactive'
  BY DEF RowsStay, Inactive

LEMMA SupersedingStep ==
    ASSUME Superseding, [ObservedNext]_<<vars, history>>
    PROVE  Superseding'
<1>1. CASE UNCHANGED <<vars, history>>
  BY <1>1 DEF vars, stores, history, Superseding, ImagesKnown, ImagesTypeOK,
              AccountsOK, Knows, KeysAreTheirUsers, Inactive, Supersedes
<1>2. CASE ObservedNext
  <2>1. /\ ImagesKnown' /\ RowsStay /\ \A p \in Call : Path(p)
    BY <1>2, ImagesStepKnown, Paths DEF ObservedNext, Superseding, ImagesKnown
  <2>2. Inactive \subseteq Inactive'
    BY <2>1, InactiveForGood
  <2>3. \A p \in Call :
           before'[p] = IF Begun(p) /\ ctx'[p].op = "upload"
                        THEN ImagesOfUser(ctx'[p].user)
                        ELSE IF Ended(p) THEN {} ELSE before[p]
    BY <1>2 DEF ObservedNext, Observe
  <2>4. superseded' \subseteq Inactive'
    <3>1. superseded' = superseded \cup UNION {before[p] : p \in Uploaded}
      BY <1>2 DEF ObservedNext, Observe
    <3>2. \A p \in Uploaded : before[p] \subseteq Inactive
      BY DEF Uploaded, Superseding, Supersedes
    <3>3. superseded \subseteq Inactive
      BY DEF Superseding
    <3> QED
      BY <2>2, <3>1, <3>2, <3>3
  <2>5. ASSUME NEW p \in Call PROVE Supersedes(p)'
    <3> SUFFICES /\ \/ pc'[p] \in {"upload.put", "upload.deactivate"}
                    \/ pc'[p] = "validate" /\ ctx'[p].op = "upload"
                    => \A i \in before'[p] :
                          i \in DOMAIN images' /\ images'[i].user = ctx'[p].user
                 /\ pc'[p] = "upload.create" => before'[p] \subseteq Inactive'
      BY DEF Supersedes
    <3> Supersedes(p)
      BY DEF Superseding
    <3>1. CASE Stays(p)
      <4>1. before'[p] = before[p] \/ pc'[p] = "idle"
        BY <3>1, <2>3 DEF Stays, Begun, Ended
      <4> QED
        BY <3>1, <4>1, <2>1, <2>2 DEF Stays, Supersedes, RowsStay
    <3>2. CASE Starts(p)
      BY <3>2, <2>3 DEF Starts, Begun, ImagesOfUser
    <3>3. CASE pc'[p] = "idle"
      BY <3>3
    <3>4. CASE Enters(p) /\ ctx'[p].user = ctx[p].user
      <4>1. before'[p] = before[p]
        BY <3>4, <2>3 DEF Enters, Begun, Ended
      <4> QED
        BY <3>4, <4>1, <2>1 DEF Enters, Supersedes, RowsStay
    <3>5. CASE GoesOn(p) /\ ctx'[p].user = ctx[p].user
      <4>1. before'[p] = before[p]
        BY <3>5, <2>3 DEF GoesOn, Begun, Ended
      <4>2. CASE pc[p] = "upload.put" /\ pc'[p] = "upload.deactivate"
        BY <3>5, <4>1, <4>2, <2>1 DEF Supersedes, RowsStay
      <4>3. CASE /\ pc[p] = "upload.deactivate" /\ pc'[p] = "upload.create"
                 /\ Deactivate(ActiveImages(ctx[p].user))
        <5>1. \A i \in before[p] : i \in DOMAIN images /\ images[i].user = ctx[p].user
          BY <4>3 DEF Supersedes
        <5>2. images \in Seq(Image)
          BY Known DEF Superseding
        <5>3. /\ DOMAIN images' = DOMAIN images
              /\ \A i \in DOMAIN images :
                    i \in ActiveImages(ctx[p].user) => ~images'[i].isActive
          BY <4>3, <5>2, Deactivation
        <5>4. ASSUME NEW i \in before[p] PROVE i \in Inactive'
          <6>1. i \in DOMAIN images /\ images[i].user = ctx[p].user
            BY <5>1
          <6>2. images'[i].isActive => images[i].isActive
            BY <6>1, <2>1 DEF RowsStay
          <6> QED
            BY <6>1, <6>2, <5>3 DEF ActiveImages, Inactive
        <5> QED
          BY <4>3, <4>1, <5>4
      <4>4. CASE pc[p] = "delete.find" /\ pc'[p] = "delete.update"
        BY <4>4
      <4> QED
        BY <3>5, <4>2, <4>3, <4>4 DEF GoesOn
    <3> QED
      BY <2>1, <3>1, <3>2, <3>3, <3>4, <3>5 DEF Path
  <2> QED
    BY <2>1, <2>4, <2>5 DEF Superseding
<1> QED
  BY <1>1, <1>2

\* However uploads overlap, fail and die: the images that were there when an
\* upload was requested are out of use once it has been answered, and stay so.
THEOREM SupersededForGood == ObservedSpec => []SupersededStaysInactive
<1>1. ObservedInit => Superseding
  <2> SUFFICES ASSUME ObservedInit PROVE Superseding
    OBVIOUS
  <2>1. ImagesKnown /\ superseded = {} /\ \A p \in Call : pc[p] = "idle"
    BY ImagesInitKnown DEF ObservedInit, ImagesInit
  <2> QED
    BY <2>1 DEF Superseding, Supersedes
<1>2. Superseding /\ [ObservedNext]_<<vars, history>> => Superseding'
  BY SupersedingStep
<1>3. Superseding => SupersededStaysInactive
  BY DEF Superseding, SupersededStaysInactive, Inactive
<1> QED
  BY <1>1, <1>2, <1>3, PTL DEF ObservedSpec

-----------------------------------------------------------------------------
\* A barred account's calls have not got past the guard.
Barring ==
    /\ ImagesKnown
    /\ barred \subseteq User
    /\ \A u \in barred :
          /\ account[u] # "enabled"
          /\ \A p \in Call : ctx[p].user = u => pc[p] \in {"idle", "validate"}

LEMMA BarringStep ==
    ASSUME Barring, [ObservedNext]_<<vars, history>>
    PROVE  Barring'
<1>1. CASE UNCHANGED <<vars, history>>
  BY <1>1 DEF vars, stores, history, Barring, ImagesKnown, ImagesTypeOK,
              AccountsOK, Knows, KeysAreTheirUsers
<1>2. CASE ObservedNext
  <2>1. /\ ImagesKnown' /\ \A p \in Call : Path(p)
    BY <1>2, ImagesStepKnown, Paths DEF ObservedNext, Barring, ImagesKnown
  <2>2. barred' = {u \in User : /\ account'[u] # "enabled"
                                /\ \/ u \in barred
                                   \/ {p \in Call : ctx'[p].user = u} = {}}
    BY <1>2 DEF ObservedNext, Observe, Quiet, InFlight
  <2>3. ASSUME NEW u \in barred', NEW p \in Call, ctx'[p].user = u
        PROVE  pc'[p] \in {"idle", "validate"}
    <3>1. u \in barred /\ account[u] # "enabled"
             /\ (ctx[p].user = u => pc[p] \in {"idle", "validate"})
      BY <2>2, <2>3 DEF Barring
    <3>2. CASE Stays(p)
      BY <3>1, <3>2, <2>3 DEF Stays
    <3>3. CASE Starts(p) \/ pc'[p] = "idle"
      BY <3>3 DEF Starts
    <3>4. CASE (Enters(p) \/ GoesOn(p)) /\ ctx'[p].user = ctx[p].user
      BY <3>1, <3>4, <2>3 DEF Enters, GoesOn, Validate
    <3> QED
      BY <2>1, <3>2, <3>3, <3>4 DEF Path
  <2> QED
    BY <2>1, <2>2, <2>3 DEF Barring
<1> QED
  BY <1>1, <1>2

\* What DisabledAccountStops says of a step and an account.
LeavesAlone(u) ==
    /\ {i \in DOMAIN images' : images'[i].user = u} = ImagesOfUser(u)
    /\ \A i \in ImagesOfUser(u) : images'[i] = images[i]
    /\ {k \in objects' : k.user = u} = {k \in objects : k.user = u}
    /\ shown'.user # u

\* Another user's rows are deactivated.
LEMMA DeactivationOfOthers ==
    ASSUME images \in Seq(Image), NEW u, NEW rows, Deactivate(rows),
           \A i \in rows : i \in DOMAIN images => images[i].user # u
    PROVE  /\ {i \in DOMAIN images' : images'[i].user = u} = ImagesOfUser(u)
           /\ \A i \in ImagesOfUser(u) : images'[i] = images[i]
<1>1. /\ RowsStay /\ DOMAIN images' = DOMAIN images
      /\ \A i \in DOMAIN images : i \notin rows => images'[i] = images[i]
  BY Deactivation
<1> QED
  BY <1>1 DEF ImagesOfUser, RowsStay

LEMMA BarredAreLeftAlone ==
    ASSUME Barring, ImagesNext, NEW u \in barred
    PROVE  LeavesAlone(u)
<1>1. /\ images \in Seq(Image) /\ KeysAreTheirUsers
      /\ \A p \in Call : Knows(pc[p], ctx[p])
  BY DEF Barring, ImagesKnown, ImagesTypeOK
<1>2. NoKey.user # u
  BY UserAssumption DEF Barring, NoKey
<1>3. \A p \in Call : pc[p] \notin {"idle", "validate"} => ctx[p].user # u
  BY DEF Barring
<1>4. CASE UNCHANGED <<images, objects>> /\ shown' = NoKey
  BY <1>4, <1>2 DEF LeavesAlone, ImagesOfUser
<1>5. ASSUME NEW p \in Call, UploadPut(p) \/ PutFails(p), shown' = NoKey
      PROVE  LeavesAlone(u)
  <2>1. /\ pc[p] = "upload.put" /\ images' = images
        /\ objects' \in {objects, objects \cup {ctx[p].key}}
    BY <1>5 DEF UploadPut, PutFails
  <2>2. ctx[p].key.user # u
    BY <2>1, <1>1, <1>3 DEF Knows, Uploading
  <2>3. {k \in objects' : k.user = u} = {k \in objects : k.user = u}
    BY <2>1, <2>2
  <2> QED
    BY <1>2, <1>5, <2>1, <2>3 DEF LeavesAlone, ImagesOfUser
<1>6. ASSUME NEW p \in Call, UploadDeactivate(p), shown' = NoKey
      PROVE  LeavesAlone(u)
  <2>1. /\ ctx[p].user # u /\ objects' = objects
        /\ Deactivate(ActiveImages(ctx[p].user))
    BY <1>3, <1>6 DEF UploadDeactivate
  <2>2. \A i \in ActiveImages(ctx[p].user) : images[i].user # u
    BY <2>1 DEF ActiveImages
  <2> QED
    BY <1>1, <1>2, <1>6, <2>1, <2>2, DeactivationOfOthers DEF LeavesAlone
<1>7. ASSUME NEW p \in Call, UploadCreate(p), shown' = NoKey
      PROVE  LeavesAlone(u)
  <2>1. PICK x : x = Uploads(ctx[p])
    OBVIOUS
  <2>2. /\ pc[p] = "upload.create" /\ objects' = objects
        /\ images' = Append(images, x)
    BY <1>7, <2>1 DEF UploadCreate, Uploads
  <2>3. x \in Image /\ x.user # u
    BY <1>1, <1>3, <2>1, <2>2 DEF Knows, Uploading, Image, Uploads
  <2>4. /\ DOMAIN images' = DOMAIN images \cup {Len(images) + 1}
        /\ images'[Len(images) + 1] = x
        /\ \A i \in DOMAIN images : images'[i] = images[i]
    BY <1>1, <2>2, <2>3, Insertion
  <2> QED
    BY <1>2, <1>7, <2>2, <2>3, <2>4 DEF LeavesAlone, ImagesOfUser
<1>8. ASSUME NEW p \in Call, DeleteUpdate(p), shown' = NoKey
      PROVE  LeavesAlone(u)
  <2>1. /\ pc[p] = "delete.update" /\ objects' = objects
        /\ Deactivate({ctx[p].image})
    BY <1>8 DEF DeleteUpdate
  <2>2. images[ctx[p].image].user # u
    BY <2>1, <1>1, <1>3 DEF Knows
  <2> QED
    BY <1>1, <1>2, <1>8, <2>1, <2>2, DeactivationOfOthers DEF LeavesAlone
<1>9. ASSUME NEW p \in Call, GetFind(p)
      PROVE  LeavesAlone(u)
  <2>1. PICK i \in FindFirst(ActiveImages(ctx[p].user)) :
            shown' = IF i = 0 THEN NoKey ELSE images[i].key
    BY <1>9 DEF GetFind
  <2>2. UNCHANGED <<images, objects>> /\ ctx[p].user # u
    BY <1>3, <1>9 DEF GetFind, stores
  <2>3. i # 0 => i \in DOMAIN images /\ images[i].user # u
    BY <2>1, <2>2 DEF FindFirst, ActiveImages
  <2>4. shown'.user # u
    BY <1>1, <1>2, <2>1, <2>3 DEF KeysAreTheirUsers
  <2> QED
    BY <2>2, <2>4 DEF LeavesAlone, ImagesOfUser
<1>10. ASSUME NEW p \in Call, ImagesStep(p) \/ Fail(p), shown' = NoKey
       PROVE  LeavesAlone(u)
  BY <1>4, <1>5, <1>6, <1>7, <1>8, <1>10
     DEF ImagesStep, Fail, Refuse, Enter, EnterUpload, DeleteFind, stores
<1>11. ASSUME NEW p \in Call, NEW v \in User, ImagesStart(p, v), shown' = NoKey
       PROVE  LeavesAlone(u)
  BY <1>4, <1>11 DEF ImagesStart, StartUpload, StartGet, StartDelete, Request, stores
<1>12. ASSUME Manage, shown' = NoKey PROVE LeavesAlone(u)
  BY <1>4, <1>12 DEF Manage, stores
<1> QED
  BY <1>9, <1>10, <1>11, <1>12 DEF ImagesNext

\* An account that is disabled or gone, once its calls in flight are answered,
\* stores, shows and removes nothing, whatever tokens are still presented.
THEOREM DisabledForGood == ObservedSpec => DisabledAccountStops
<1>1. ObservedInit => Barring
  BY ImagesInitKnown DEF ObservedInit, Barring
<1>2. Barring /\ [ObservedNext]_<<vars, history>> => Barring'
  BY BarringStep
<1>3. Barring /\ [ObservedNext]_<<vars, history>>
        => [\A u \in barred :
              /\ {i \in DOMAIN images' : images'[i].user = u} = ImagesOfUser(u)
              /\ \A i \in ImagesOfUser(u) : images'[i] = images[i]
              /\ {k \in objects' : k.user = u} = {k \in objects : k.user = u}
              /\ shown'.user # u]_<<vars, history>>
  BY BarredAreLeftAlone DEF ObservedNext, LeavesAlone
<1> QED
  BY <1>1, <1>2, <1>3, PTL DEF ObservedSpec, DisabledAccountStops

-----------------------------------------------------------------------------
(* The two stores. *)

InHand(p) == pc[p] \in Uploading

Apart ==
    /\ \A i \in DOMAIN images : images[i].key.uuid <= uuids
    /\ \A p \in Call : InHand(p) => ctx[p].key.uuid <= uuids
    /\ \A i, j \in DOMAIN images : images[i].key = images[j].key => i = j
    /\ \A p, q \in Call : InHand(p) /\ InHand(q) /\ ctx[p].key = ctx[q].key => p = q
    /\ \A p \in Call, i \in DOMAIN images : InHand(p) => ctx[p].key # images[i].key

Stored ==
    /\ RowKeys \subseteq objects
    /\ \A p \in Storing : ctx[p].key \in objects

Unnamed == objects \ RowKeys

Accounted ==
    /\ IsFiniteSet(Unnamed) /\ IsFiniteSet(Storing)
    /\ Cardinality(Unnamed) <= Cardinality(Storing) + failures

InBucket ==
    /\ ImagesKnown
    /\ Apart /\ Stored /\ Accounted
    /\ shown \in RowKeys \cup {NoKey}

-----------------------------------------------------------------------------
(* What a step does to keys, calls that hold one, and objects. *)

OthersStay(p) == \A q \in Call \ {p} : Stays(q)

SameKeys == /\ DOMAIN images' = DOMAIN images
            /\ \A i \in DOMAIN images : images'[i].key = images[i].key

\* No key is drawn, stored or given up.
NoKeyMoves ==
    /\ SameKeys /\ UNCHANGED <<objects, uuids, failures>>
    /\ \A p \in Call : \/ Stays(p)
                       \/ pc[p] \notin Uploading /\ pc'[p] \notin Uploading
                       \/ /\ pc[p] = "upload.deactivate" /\ pc'[p] = "upload.create"
                          /\ ctx'[p] = ctx[p]

Draws(p) ==
    /\ SameKeys /\ UNCHANGED <<objects, failures>> /\ uuids' = uuids + 1
    /\ pc[p] = "validate" /\ pc'[p] = "upload.put"
    /\ ctx'[p].key.uuid = uuids' /\ OthersStay(p)

Puts(p) ==
    /\ SameKeys /\ UNCHANGED <<uuids, failures>>
    /\ objects' = objects \cup {ctx[p].key}
    /\ pc[p] = "upload.put" /\ pc'[p] = "upload.deactivate"
    /\ ctx'[p] = ctx[p] /\ OthersStay(p)

Fails(p) ==
    /\ SameKeys /\ UNCHANGED uuids /\ failures' = failures + 1
    /\ \/ UNCHANGED objects
       \/ pc[p] = "upload.put" /\ objects' = objects \cup {ctx[p].key}
    /\ pc'[p] = "idle" /\ OthersStay(p)

Inserts(p) ==
    /\ UNCHANGED <<objects, uuids, failures>>
    /\ \E row : row.key = ctx[p].key /\ images' = Append(images, row)
    /\ pc[p] = "upload.create" /\ pc'[p] = "idle" /\ OthersStay(p)

LEMMA DeactivatedKeys ==
    ASSUME ImagesKnown, NEW rows, Deactivate(rows)
    PROVE  SameKeys
<1>1. \A i \in DOMAIN images : images[i] \in [user : User, key : Key, isActive : BOOLEAN]
  BY ImageRows DEF ImagesKnown, ImagesTypeOK, Image
<1> QED
  BY <1>1 DEF Deactivate, SameKeys

LEMMA Effects ==
    ASSUME ImagesKnown, [ImagesNext]_vars
    PROVE  \/ NoKeyMoves
           \/ \E p \in Call : Draws(p) \/ Puts(p) \/ Fails(p) \/ Inserts(p)
<1>1. ImagesTypeOK
  BY DEF ImagesKnown
<1>2. ASSUME UNCHANGED <<images, objects, uuids, failures, pc, ctx>>
      PROVE  NoKeyMoves
  BY <1>2 DEF NoKeyMoves, SameKeys, Stays
<1>3. ASSUME NEW p \in Call, NEW l, NEW c, Goto(p, l, c), pc[p] \notin Uploading,
             l \notin Uploading, SameKeys, UNCHANGED <<objects, uuids, failures>>
      PROVE  NoKeyMoves
  BY <1>1, <1>3, OneMoves DEF NoKeyMoves
<1>4. ASSUME NEW p \in Call, NEW u \in User, ImagesStart(p, u)
      PROVE  NoKeyMoves
  <2>1. PICK c : /\ Goto(p, "validate", c) /\ pc[p] = "idle"
                 /\ UNCHANGED <<images, objects, uuids, failures>>
    BY <1>4 DEF ImagesStart, StartUpload, StartGet, StartDelete, Request, stores
  <2> QED
    BY <1>3, <2>1 DEF Uploading, SameKeys
<1>5. ASSUME NEW p \in Call,
             Refuse(p) \/ Enter(p) \/ GetFind(p) \/ DeleteFind(p)
      PROVE  NoKeyMoves
  <2> DEFINE Outside == \E l, c : Goto(p, l, c) /\ l \notin Uploading
  <2>1. CASE Refuse(p) \/ Enter(p) \/ GetFind(p)
    <3>1. Outside
      BY <2>1 DEF Refuse, Enter, GetFind, Answer, Uploading
    <3> QED
      BY <1>3, <2>1, <3>1 DEF Refuse, Enter, GetFind, stores, Uploading, SameKeys
  <2>2. CASE DeleteFind(p)
    <3>1. CASE Answer(p)
      BY <1>3, <2>2, <3>1 DEF DeleteFind, Answer, stores, Uploading, SameKeys
    <3>2. ASSUME NEW i, Goto(p, "delete.update", [ctx[p] EXCEPT !.image = i])
          PROVE  Outside
      BY <3>2 DEF Uploading
    <3>3. Outside
      BY <2>2, <3>1, <3>2 DEF DeleteFind, Answer, Uploading
    <3> QED
      BY <1>3, <2>2, <3>3 DEF DeleteFind, stores, Uploading, SameKeys
  <2> QED
    BY <1>5, <2>1, <2>2
<1>6. ASSUME NEW p \in Call, EnterUpload(p)
      PROVE  NoKeyMoves \/ Draws(p)
  <2>1. /\ pc[p] = "validate" /\ UNCHANGED <<images, objects, failures>>
        /\ \/ Answer(p) /\ UNCHANGED uuids
           \/ /\ uuids' = uuids + 1
              /\ Goto(p, "upload.put",
                      [ctx[p] EXCEPT !.key = [user |-> ctx[p].user,
                                              uuid |-> uuids + 1]])
    BY <1>6 DEF EnterUpload
  <2>2. CASE Answer(p) /\ UNCHANGED uuids
    BY <1>3, <2>1, <2>2 DEF Answer, SameKeys, Uploading
  <2>3. CASE ~(Answer(p) /\ UNCHANGED uuids)
    <3>1. PICK c : c = [ctx[p] EXCEPT !.key = [user |-> ctx[p].user,
                                               uuid |-> uuids + 1]]
      OBVIOUS
    <3>2. c.key.uuid = uuids + 1
      BY <3>1, Known DEF Context
    <3>3. uuids' = uuids + 1 /\ Goto(p, "upload.put", c)
      BY <2>1, <2>3, <3>1
    <3>4. /\ pc'[p] = "upload.put" /\ ctx'[p] = c
          /\ \A q \in Call \ {p} : Stays(q)
      BY <1>1, <3>3, OneMoves
    <3> QED
      BY <2>1, <3>2, <3>3, <3>4 DEF Draws, SameKeys, OthersStay
  <2> QED
    BY <2>2, <2>3
<1>7. ASSUME NEW p \in Call, UploadPut(p)
      PROVE  Puts(p)
  BY <1>1, <1>7, OneMoves DEF UploadPut, Puts, SameKeys, OthersStay
<1>8. ASSUME NEW p \in Call, PutFails(p)
      PROVE  Fails(p)
  BY <1>1, <1>8, OneMoves DEF PutFails, Answer, Fails, SameKeys, OthersStay
<1>9. ASSUME NEW p \in Call, UploadDeactivate(p)
      PROVE  NoKeyMoves
  BY <1>1, <1>9, OneMoves, DeactivatedKeys DEF UploadDeactivate, NoKeyMoves
<1>10. ASSUME NEW p \in Call, UploadCreate(p)
       PROVE  Inserts(p)
  <2>1. PICK row : row.key = ctx[p].key /\ images' = Append(images, row)
    BY <1>10 DEF UploadCreate
  <2> QED
    BY <1>1, <1>10, <2>1, OneMoves DEF UploadCreate, Answer, Inserts, OthersStay
<1>11. ASSUME NEW p \in Call, DeleteUpdate(p)
       PROVE  NoKeyMoves
  BY <1>3, <1>11, DeactivatedKeys DEF DeleteUpdate, Answer, Uploading
<1>12. ASSUME NEW p \in Call, Fail(p)
       PROVE  Fails(p)
  BY <1>1, <1>12, OneMoves DEF Fail, Answer, Fails, SameKeys, OthersStay, stores
<1> QED
  BY <1>2, <1>4, <1>5, <1>6, <1>7, <1>8, <1>9, <1>10, <1>11, <1>12
     DEF ImagesNext, ImagesStep, Manage, vars, stores

-----------------------------------------------------------------------------
(* Keys stay apart. *)

\* Of rows and calls with a key.
LEMMA KeyTypes ==
    ASSUME ImagesKnown
    PROVE  /\ uuids \in Nat
           /\ \A i \in DOMAIN images : images[i].key \in Key
           /\ \A p \in Call : InHand(p) => ctx[p].key \in Key
  BY ImageRows, Known DEF ImagesKnown, ImagesTypeOK, Image, InHand, Knows

\* A row that was not there has the key of the upload that inserts it.
LEMMA InsertedRow ==
    ASSUME ImagesKnown, NEW p, Inserts(p)
    PROVE  /\ DOMAIN images' = DOMAIN images \cup {Len(images) + 1}
           /\ Len(images) + 1 \notin DOMAIN images
           /\ images'[Len(images) + 1].key = ctx[p].key
           /\ \A i \in DOMAIN images : images'[i].key = images[i].key
<1>1. images \in Seq(Image)
  BY DEF ImagesKnown, ImagesTypeOK
<1>2. PICK row : row.key = ctx[p].key /\ images' = Append(images, row)
  BY DEF Inserts
<1> QED
  BY <1>1, <1>2, ImageRows

LEMMA ApartStep ==
    ASSUME ImagesKnown, Apart, [ImagesNext]_vars
    PROVE  Apart'
<1>1. \A i \in DOMAIN images : images[i].key.uuid \in Nat
  BY KeyTypes DEF Key
<1>2. \A p \in Call : InHand(p) => ctx[p].key.uuid \in Nat
  BY KeyTypes DEF Key
\* Unless a key is drawn, calls hold what they held, or nothing.
<1>3. ASSUME UNCHANGED uuids, SameKeys,
             \A p \in Call : InHand(p)' => InHand(p) /\ ctx'[p].key = ctx[p].key
      PROVE  Apart'
  BY <1>3 DEF Apart, SameKeys, InHand
<1>4. CASE NoKeyMoves
  BY <1>3, <1>4 DEF NoKeyMoves, InHand, Uploading, Stays
<1>5. ASSUME NEW p \in Call, Puts(p) \/ Fails(p)
      PROVE  Apart'
  <2>1. \A q \in Call : InHand(q)' => InHand(q) /\ ctx'[q].key = ctx[q].key
    BY <1>5 DEF Puts, Fails, OthersStay, InHand, Uploading, Stays
  <2> QED
    BY <1>3, <1>5, <2>1 DEF Puts, Fails
<1>6. ASSUME NEW p \in Call, Draws(p)
      PROVE  Apart'
  <2>1. \A q \in Call \ {p} : InHand(q)' => InHand(q) /\ ctx'[q].key = ctx[q].key
    BY <1>6 DEF Draws, OthersStay, InHand, Stays
  <2>2. uuids' = uuids + 1 /\ uuids \in Nat /\ ctx'[p].key.uuid = uuids + 1
    BY <1>6, KeyTypes DEF Draws
  <2>3. /\ \A i \in DOMAIN images : images[i].key.uuid < uuids + 1
        /\ \A q \in Call : InHand(q) => ctx[q].key.uuid < uuids + 1
    BY <1>1, <1>2, <2>2 DEF Apart
  <2>4. SameKeys
    BY <1>6 DEF Draws
  <2>5. \A q \in Call : InHand(q)' =>
           /\ ctx'[q].key.uuid <= uuids'
           /\ \A i \in DOMAIN images' : ctx'[q].key # images'[i].key
    BY <1>1, <1>2, <2>1, <2>2, <2>3, <2>4 DEF Apart, SameKeys
  <2>6. \A q, r \in Call : InHand(q)' /\ InHand(r)' /\ ctx'[q].key = ctx'[r].key
           => q = r
    BY <1>2, <2>1, <2>2, <2>3 DEF Apart
  <2>7. \A i \in DOMAIN images' : images'[i].key.uuid <= uuids'
    BY <1>1, <2>2, <2>3, <2>4 DEF SameKeys
  <2>8. \A i, j \in DOMAIN images' : images'[i].key = images'[j].key => i = j
    BY <2>4 DEF SameKeys, Apart
  <2> QED
    BY <2>5, <2>6, <2>7, <2>8 DEF Apart, InHand
<1>7. ASSUME NEW p \in Call, Inserts(p)
      PROVE  Apart'
  <2>1. \A q \in Call : InHand(q)' =>
           InHand(q) /\ ctx'[q].key = ctx[q].key /\ q # p
    BY <1>7 DEF Inserts, OthersStay, InHand, Uploading, Stays
  <2>2. InHand(p) /\ uuids' = uuids
    BY <1>7 DEF Inserts, InHand, Uploading
  <2>3. \A i \in DOMAIN images' : i \notin DOMAIN images =>
           i = Len(images) + 1 /\ images'[i].key = ctx[p].key
    BY <1>7, InsertedRow
  <2>4. \A i \in DOMAIN images : images'[i].key = images[i].key
    BY <1>7, InsertedRow
  <2>5. \A i \in DOMAIN images' : images'[i].key.uuid <= uuids'
    BY <2>2, <2>3, <2>4 DEF Apart
  <2>6. \A i, j \in DOMAIN images' : images'[i].key = images'[j].key => i = j
    BY <2>2, <2>3, <2>4 DEF Apart
  <2>7. \A q \in Call, i \in DOMAIN images' :
           InHand(q)' => ctx'[q].key # images'[i].key
    BY <2>1, <2>2, <2>3, <2>4 DEF Apart
  <2> QED
    BY <2>1, <2>2, <2>5, <2>6, <2>7 DEF Apart, InHand
<1> QED
  BY <1>4, <1>5, <1>6, <1>7, Effects

-----------------------------------------------------------------------------
(* What is named is stored, and what is stored is accounted for. *)

LEMMA SameRowKeys == ASSUME SameKeys PROVE RowKeys' = RowKeys
  BY DEF SameKeys, RowKeys

LEMMA InsertedKeys ==
    ASSUME ImagesKnown, NEW p, Inserts(p)
    PROVE  RowKeys' = RowKeys \cup {ctx[p].key}
  BY InsertedRow DEF RowKeys

\* The calls between the two stores, by what the step does.
LEMMA StoringAfter ==
    ASSUME ImagesKnown
    PROVE  /\ NoKeyMoves => Storing' = Storing
           /\ \A p \in Call :
                 /\ Draws(p) => Storing' = Storing
                 /\ Puts(p) => p \notin Storing /\ Storing' = Storing \cup {p}
                 /\ Fails(p) => Storing' = Storing \ {p}
                 /\ Inserts(p) => p \in Storing /\ Storing' = Storing \ {p}
  BY DEF Storing, NoKeyMoves, Draws, Puts, Fails, Inserts, OthersStay, Stays,
     Uploading

LEMMA StoredStep ==
    ASSUME ImagesKnown, Stored, [ImagesNext]_vars
    PROVE  Stored'
<1>1. ASSUME SameKeys, objects \subseteq objects',
             \A p \in Storing' : \/ p \in Storing /\ ctx'[p].key = ctx[p].key
                                 \/ ctx'[p].key \in objects'
      PROVE  Stored'
  BY <1>1, SameRowKeys DEF Stored
<1>2. CASE NoKeyMoves
  <2>1. \A p \in Storing' : p \in Storing /\ ctx'[p].key = ctx[p].key
    BY <1>2 DEF NoKeyMoves, Storing, Stays, Uploading
  <2> QED
    BY <1>1, <1>2, <2>1 DEF NoKeyMoves
<1>3. ASSUME NEW p \in Call, Draws(p) \/ Puts(p) \/ Fails(p)
      PROVE  Stored'
  <2>1. \A q \in Storing' : \/ q \in Storing /\ ctx'[q].key = ctx[q].key
                            \/ ctx'[q].key \in objects'
    BY <1>3 DEF Draws, Puts, Fails, OthersStay, Storing, Stays
  <2> QED
    BY <1>1, <1>3, <2>1 DEF Draws, Puts, Fails
<1>4. ASSUME NEW p \in Call, Inserts(p)
      PROVE  Stored'
  <2>1. \A q \in Storing' : q \in Storing /\ ctx'[q].key = ctx[q].key
    BY <1>4 DEF Inserts, OthersStay, Storing, Stays
  <2>2. ctx[p].key \in objects /\ objects' = objects
    BY <1>4 DEF Inserts, Storing, Stored
  <2> QED
    BY <1>4, <2>1, <2>2, InsertedKeys DEF Stored
<1> QED
  BY <1>2, <1>3, <1>4, Effects

(* A set that gains at most one element counts at most one more. *)
LEMMA OneMore ==
    ASSUME NEW S, NEW x, NEW T, IsFiniteSet(S), T \subseteq S \cup {x}
    PROVE  /\ IsFiniteSet(T) /\ Cardinality(T) \in Nat
           /\ Cardinality(T) <= Cardinality(S) + 1
<1> DEFINE U == S \cup {x}
<1>1. Cardinality(S) \in Nat
  BY FS_CardinalityType
<1>2. IsFiniteSet(U)
  BY FS_AddElement
<1>3. Cardinality(U) = IF x \in S THEN Cardinality(S) ELSE Cardinality(S) + 1
  BY FS_AddElement
<1>4. IsFiniteSet(T) /\ Cardinality(T) <= Cardinality(U)
  <2>1. T \subseteq U
    OBVIOUS
  <2> HIDE DEF U
  <2> QED
    BY <1>2, <2>1, FS_Subset
<1>5. Cardinality(T) \in Nat
  BY <1>4, FS_CardinalityType
<1> HIDE DEF U
<1> QED
  BY <1>1, <1>3, <1>4, <1>5

LEMMA AccountedStep ==
    ASSUME ImagesKnown, Apart, Stored, Accounted, [ImagesNext]_vars
    PROVE  Accounted'
<1>1. /\ failures \in Nat /\ Cardinality(Unnamed) \in Nat
      /\ Cardinality(Storing) \in Nat
      /\ Cardinality(Unnamed) <= Cardinality(Storing) + failures
      /\ IsFiniteSet(Unnamed) /\ IsFiniteSet(Storing)
  BY FS_CardinalityType DEF ImagesKnown, ImagesTypeOK, Accounted
<1>2. CASE NoKeyMoves \/ \E p \in Call : Draws(p)
  <2>1. Unnamed' = Unnamed /\ Storing' = Storing /\ failures' = failures
    BY <1>2, SameRowKeys, StoringAfter DEF NoKeyMoves, Draws, Unnamed
  <2> QED
    BY <1>1, <2>1 DEF Accounted
<1>3. ASSUME NEW p \in Call, Puts(p)
      PROVE  Accounted'
  <2>1. /\ Unnamed' \subseteq Unnamed \cup {ctx[p].key}
        /\ p \notin Storing /\ Storing' = Storing \cup {p} /\ failures' = failures
    BY <1>3, SameRowKeys, StoringAfter DEF Puts, Unnamed
  <2>2. /\ IsFiniteSet(Unnamed') /\ Cardinality(Unnamed') \in Nat
        /\ Cardinality(Unnamed') <= Cardinality(Unnamed) + 1
    BY <1>1, <2>1, OneMore
  <2>3. IsFiniteSet(Storing') /\ Cardinality(Storing') = Cardinality(Storing) + 1
    BY <1>1, <2>1, FS_AddElement
  <2> QED
    BY <1>1, <2>1, <2>2, <2>3 DEF Accounted
<1>4. ASSUME NEW p \in Call, Fails(p)
      PROVE  Accounted'
  <2>1. /\ Storing' = Storing \ {p} /\ failures' = failures + 1
        /\ \/ Unnamed' = Unnamed
           \/ p \notin Storing /\ Unnamed' \subseteq Unnamed \cup {ctx[p].key}
    BY <1>4, SameRowKeys, StoringAfter DEF Fails, Unnamed, Storing
  <2>2. /\ IsFiniteSet(Storing')
        /\ Cardinality(Storing') = IF p \in Storing THEN Cardinality(Storing) - 1
                                   ELSE Cardinality(Storing)
    BY <1>1, <2>1, FS_RemoveElement
  <2>3. CASE Unnamed' = Unnamed
    BY <1>1, <2>1, <2>2, <2>3 DEF Accounted
  <2>4. CASE p \notin Storing /\ Unnamed' \subseteq Unnamed \cup {ctx[p].key}
    <3>1. /\ IsFiniteSet(Unnamed') /\ Cardinality(Unnamed') \in Nat
          /\ Cardinality(Unnamed') <= Cardinality(Unnamed) + 1
      BY <1>1, <2>4, OneMore
    <3> QED
      BY <1>1, <2>1, <2>2, <2>4, <3>1 DEF Accounted
  <2> QED
    BY <2>1, <2>3, <2>4
<1>5. ASSUME NEW p \in Call, Inserts(p)
      PROVE  Accounted'
  <2>1. ctx[p].key \in Unnamed
    BY <1>5 DEF Inserts, Stored, Storing, Apart, InHand, Uploading, Unnamed, RowKeys
  <2>2. /\ Unnamed' = Unnamed \ {ctx[p].key} /\ failures' = failures
        /\ p \in Storing /\ Storing' = Storing \ {p}
    BY <1>5, InsertedKeys, StoringAfter DEF Inserts, Unnamed
  <2>3. /\ IsFiniteSet(Unnamed') /\ IsFiniteSet(Storing')
        /\ Cardinality(Unnamed') = Cardinality(Unnamed) - 1
        /\ Cardinality(Storing') = Cardinality(Storing) - 1
    BY <1>1, <2>1, <2>2, FS_RemoveElement
  <2> QED
    BY <1>1, <2>2, <2>3 DEF Accounted
<1> QED
  BY <1>2, <1>3, <1>4, <1>5, Effects

-----------------------------------------------------------------------------
LEMMA ShownStep ==
    ASSUME ImagesKnown, shown \in RowKeys \cup {NoKey}, [ImagesNext]_vars
    PROVE  shown' \in RowKeys' \cup {NoKey}
<1>1. RowKeys \subseteq RowKeys'
  BY Effects, SameRowKeys, InsertedKeys DEF NoKeyMoves, Draws, Puts, Fails
<1>2. ASSUME NEW p \in Call, GetFind(p)
      PROVE  shown' \in RowKeys \cup {NoKey}
  <2>1. PICK i \in FindFirst(ActiveImages(ctx[p].user)) :
           shown' = IF i = 0 THEN NoKey ELSE images[i].key
    BY <1>2 DEF GetFind
  <2> QED
    BY <2>1 DEF FindFirst, ActiveImages, RowKeys
<1> QED
  BY <1>1, <1>2 DEF ImagesNext, vars

\* Rows that all have keys of their own have as many keys.
LEMMA OneKeyEach ==
    ASSUME ImagesKnown, Apart
    PROVE  Cardinality(RowKeys) = Len(images)
<1>1. DOMAIN images = 1..Len(images) /\ Len(images) \in Nat
  BY ImageRows DEF ImagesKnown, ImagesTypeOK
<1> DEFINE f == [i \in 1..Len(images) |-> images[i].key]
<1>2. f \in Bijection(1..Len(images), RowKeys)
  BY <1>1 DEF Bijection, Injection, Surjection, RowKeys, Apart, IsInjective
<1> QED
  BY <1>1, <1>2, FS_CountingElements DEF ExistsBijection

LEMMA InBucketStart == ImagesInit => InBucket
<1> SUFFICES ASSUME ImagesInit PROVE InBucket
  OBVIOUS
<1>1. ImagesKnown
  BY ImagesInitKnown
<1>2. /\ images = << >> /\ DOMAIN images = {} /\ objects = {} /\ shown = NoKey
      /\ \A p \in Call : pc[p] = "idle"
  BY DEF ImagesInit
<1>3. Unnamed = {} /\ Storing = {} /\ failures = 0
  BY <1>2 DEF Unnamed, Storing, ImagesInit
<1>4. Apart
  BY <1>2 DEF Apart, InHand, Uploading
<1>5. Stored
  BY <1>2 DEF Stored, RowKeys, Storing
<1>6. Accounted
  BY <1>3, FS_EmptySet DEF Accounted
<1> QED
  BY <1>1, <1>2, <1>4, <1>5, <1>6 DEF InBucket

\* A row, and a URL handed out, name an object of their own in the bucket; what
\* else the bucket holds is on its way into the table, or a failure's.
THEOREM StoresAgree == ObservedSpec => []BucketAndTableAgree
<1>1. ObservedInit => InBucket
  BY InBucketStart DEF ObservedInit
<1>2. InBucket /\ [ObservedNext]_<<vars, history>> => InBucket'
  <2> SUFFICES ASSUME InBucket, [ImagesNext]_vars PROVE InBucket'
    BY DEF ObservedNext
  <2>1. ImagesKnown' /\ Apart' /\ Stored' /\ Accounted'
    BY ImagesStepKnown, ApartStep, StoredStep, AccountedStep DEF InBucket
  <2>2. shown' \in RowKeys' \cup {NoKey}
    BY ShownStep DEF InBucket
  <2> QED
    BY <2>1, <2>2 DEF InBucket
<1>3. InBucket => BucketAndTableAgree
  BY OneKeyEach DEF InBucket, Stored, Accounted, Unnamed, ImagesKnown,
     KeysAreTheirUsers, BucketAndTableAgree
<1> QED
  BY <1>1, <1>2, <1>3, PTL DEF ObservedSpec

-----------------------------------------------------------------------------
(* What a user who makes one call at a time may expect. *)

\* What is so of user u whenever no two of the calls about u have met: the
\* upload that is to insert has cleared the way, the removal has the active
\* image, and otherwise the image expected is the active one.
Decided(u) ==
    /\ \A p \in InFlight(u) \ overlapped :
          /\ InFlight(u) = {p}
          /\ pc[p] = "upload.create" => ActiveImages(u) = {}
          /\ pc[p] = "delete.update" => ctx[p].image \in ActiveImages(u)
    /\ u \in known /\ (\A p \in InFlight(u) : p \notin overlapped /\ pc[p] # "upload.create")
          => ActiveImages(u) = {expected[u]} \ {0}

\* The inductive invariant.
Deciding ==
    /\ ImagesKnown
    /\ \A p \in Call : pc[p] = "idle" => ctx[p].user = None /\ p \notin overlapped
    /\ known \subseteq User
    /\ \A u \in User : Decided(u)

\* The step of call p about user u, and the active images it leaves.

OnlyOf(u) == \A v \in User \ {u} : ActiveImages(v)' = ActiveImages(v)

Opens(p, u) ==
    /\ pc[p] = "idle" /\ pc'[p] = "validate" /\ ctx'[p].user = u
    /\ UNCHANGED <<images, failures>>

Passes(p, u) ==
    /\ pc[p] \notin {"idle", "upload.create", "delete.update"}
    /\ pc'[p] \notin {"idle", "upload.create"}
    /\ pc'[p] = "delete.update" => ctx'[p].image \in ActiveImages(u)
    /\ ctx[p].user = u /\ ctx'[p].user = u
    /\ UNCHANGED <<images, failures>>

Clears(p, u) ==
    /\ pc[p] = "upload.deactivate" /\ pc'[p] = "upload.create"
    /\ ctx[p].user = u /\ ctx'[p].user = u
    /\ OnlyOf(u) /\ ActiveImages(u)' = {} /\ Len(images') = Len(images)
    /\ UNCHANGED failures

\* Answered without an effect.
Replies(p, u) ==
    /\ pc[p] \notin {"idle", "upload.create", "delete.update"}
    /\ ctx[p].user = u /\ pc'[p] = "idle" /\ ctx'[p].user = None
    /\ UNCHANGED <<images, failures>>

Breaks(p, u) ==
    /\ pc[p] # "idle" /\ ctx[p].user = u /\ pc'[p] = "idle" /\ ctx'[p].user = None
    /\ images' = images /\ failures' = failures + 1

Adds(p, u) ==
    /\ pc[p] = "upload.create"
    /\ ctx[p].user = u /\ pc'[p] = "idle" /\ ctx'[p].user = None
    /\ OnlyOf(u) /\ ActiveImages(u)' = ActiveImages(u) \cup {Len(images) + 1}
    /\ Len(images') = Len(images) + 1
    /\ UNCHANGED failures

Removes(p, u) ==
    /\ pc[p] = "delete.update"
    /\ ctx[p].user = u /\ pc'[p] = "idle" /\ ctx'[p].user = None
    /\ OnlyOf(u) /\ ActiveImages(u)' = ActiveImages(u) \ {ctx[p].image}
    /\ Len(images') = Len(images)
    /\ UNCHANGED failures

Moves(p, u) ==
    \/ Opens(p, u) \/ Passes(p, u) \/ Clears(p, u) \/ Replies(p, u)
    \/ Breaks(p, u) \/ Adds(p, u) \/ Removes(p, u)

LEMMA ActiveAfter ==
    ASSUME images \in Seq(Image), NEW rows, Deactivate(rows), NEW v
    PROVE  ActiveImages(v)' = ActiveImages(v) \ rows
<1>1. /\ RowsStay /\ DOMAIN images' = DOMAIN images
      /\ \A i \in DOMAIN images : i \notin rows => images'[i] = images[i]
      /\ \A i \in DOMAIN images : i \in rows => ~images'[i].isActive
  BY Deactivation
<1> QED
  BY <1>1 DEF RowsStay, ActiveImages

LEMMA ActiveWithRow ==
    ASSUME images \in Seq(Image), NEW x \in Image, x.isActive,
           images' = Append(images, x), NEW v
    PROVE  /\ ActiveImages(v)' = IF x.user = v
                                 THEN ActiveImages(v) \cup {Len(images) + 1}
                                 ELSE ActiveImages(v)
           /\ Len(images') = Len(images) + 1
<1>1. /\ Len(images') = Len(images) + 1
      /\ DOMAIN images' = DOMAIN images \cup {Len(images) + 1}
      /\ images'[Len(images) + 1] = x
      /\ \A i \in DOMAIN images : images'[i] = images[i]
  BY Insertion
<1> QED
  BY <1>1 DEF ActiveImages

\* An answered call has nobody's name.
LEMMA Nobody ==
    ASSUME ImagesTypeOK, NEW p \in Call, Answer(p)
    PROVE  pc'[p] = "idle" /\ ctx'[p].user = None /\ OthersStay(p)
<1>1. pc'[p] = "idle" /\ ctx'[p] = NoContext /\ \A q \in Call \ {p} : Stays(q)
  BY OneMoves DEF Answer
<1> QED
  BY <1>1 DEF NoContext, OthersStay

LEMMA Movements ==
    ASSUME ImagesKnown, [ImagesNext]_vars
    PROVE  \/ UNCHANGED <<images, pc, ctx, failures>>
           \/ \E p \in Call, u \in User : OthersStay(p) /\ Moves(p, u)
<1> DEFINE Moved == \E p \in Call, u \in User : OthersStay(p) /\ Moves(p, u)
<1>1. ImagesTypeOK /\ images \in Seq(Image)
  BY DEF ImagesKnown, ImagesTypeOK
<1>2. ASSUME NEW p \in Call, pc[p] # "idle"
      PROVE  ctx[p].user \in User /\ ctx[p] \in Context
  BY <1>2, Known DEF Knows
<1>3. ASSUME NEW p \in Call, NEW u \in User, ImagesStart(p, u)
      PROVE  Moved
  <2>1. PICK op \in Op :
            /\ pc[p] = "idle" /\ UNCHANGED <<images, failures>>
            /\ Goto(p, "validate", [NoContext EXCEPT !.op = op, !.user = u])
    BY <1>3 DEF ImagesStart, StartUpload, StartGet, StartDelete, Request, stores, Op
  <2>2. PICK c : c = [NoContext EXCEPT !.op = op, !.user = u]
    OBVIOUS
  <2>3. c.user = u
    BY <2>2 DEF NoContext
  <2>4. Goto(p, "validate", c)
    BY <2>1, <2>2
  <2>5. pc'[p] = "validate" /\ ctx'[p] = c /\ OthersStay(p)
    BY <1>1, <2>4, OneMoves DEF OthersStay
  <2>6. Opens(p, u)
    BY <2>1, <2>3, <2>5 DEF Opens
  <2> QED
    BY <2>5, <2>6 DEF Moves
<1>4. ASSUME NEW p \in Call, Answer(p), UNCHANGED <<images, failures>>,
             pc[p] \notin {"idle", "upload.create", "delete.update"}
      PROVE  Moved
  <2>1. Replies(p, ctx[p].user)
    BY <1>1, <1>4, Nobody DEF Replies
  <2> QED
    BY <1>1, <1>2, <1>4, <2>1, Nobody DEF Moves
<1>5. ASSUME NEW p \in Call, Answer(p), images' = images, pc[p] # "idle",
             failures' = failures + 1
      PROVE  Moved
  <2>1. Breaks(p, ctx[p].user)
    BY <1>1, <1>5, Nobody DEF Breaks
  <2> QED
    BY <1>1, <1>2, <1>5, <2>1, Nobody DEF Moves
<1>6. ASSUME NEW p \in Call, NEW l, NEW c, Goto(p, l, c), c.user = ctx[p].user,
             pc[p] \notin {"idle", "upload.create", "delete.update"},
             l \notin {"idle", "upload.create"},
             l = "delete.update" => c.image \in ActiveImages(ctx[p].user),
             UNCHANGED <<images, failures>>
      PROVE  Moved
  <2>1. pc'[p] = l /\ ctx'[p] = c /\ OthersStay(p)
    BY <1>1, <1>6, OneMoves DEF OthersStay
  <2>2. PICK u \in User : u = ctx[p].user
    BY <1>2, <1>6
  <2>3. Passes(p, u)
    BY <1>6, <2>1, <2>2 DEF Passes
  <2> QED
    BY <2>1, <2>3 DEF Moves
<1>7. ASSUME NEW p \in Call, Refuse(p) \/ GetFind(p) PROVE Moved
  BY <1>4, <1>7 DEF Refuse, GetFind, stores
<1>8. ASSUME NEW p \in Call, Enter(p) PROVE Moved
  <2>1. PICK l \in {"get.find", "delete.find"} : Goto(p, l, ctx[p])
    BY <1>8 DEF Enter
  <2> QED
    BY <1>6, <1>8, <2>1 DEF Enter, stores
<1>9. ASSUME NEW p \in Call, EnterUpload(p) PROVE Moved
  <2>1. pc[p] = "validate" /\ UNCHANGED <<images, failures>>
    BY <1>9 DEF EnterUpload
  <2>2. CASE Answer(p)
    BY <1>4, <2>1, <2>2
  <2>3. ASSUME NEW k, Goto(p, "upload.put", [ctx[p] EXCEPT !.key = k])
        PROVE  Moved
    <3>1. PICK c : c = [ctx[p] EXCEPT !.key = k]
      OBVIOUS
    <3>2. c.user = ctx[p].user
      BY <1>2, <2>1, <3>1 DEF Context
    <3>3. Goto(p, "upload.put", c)
      BY <2>3, <3>1
    <3> QED
      BY <1>6, <2>1, <3>2, <3>3
  <2> QED
    BY <1>9, <2>2, <2>3 DEF EnterUpload
<1>10. ASSUME NEW p \in Call, UploadPut(p) PROVE Moved
  BY <1>6, <1>10 DEF UploadPut
<1>11. ASSUME NEW p \in Call, PutFails(p) \/ Fail(p) PROVE Moved
  BY <1>5, <1>11 DEF PutFails, Fail, stores
<1>12. ASSUME NEW p \in Call, UploadDeactivate(p) PROVE Moved
  <2>1. /\ pc[p] = "upload.deactivate" /\ Goto(p, "upload.create", ctx[p])
        /\ failures' = failures
    BY <1>12 DEF UploadDeactivate
  <2>2. PICK u \in User : u = ctx[p].user
    BY <1>2, <2>1
  <2>3. Deactivate(ActiveImages(u))
    BY <1>12, <2>2 DEF UploadDeactivate
  <2>4. Len(images') = Len(images)
    BY <1>1, <2>3, Deactivation
  <2>5. \A v : ActiveImages(v)' = ActiveImages(v) \ ActiveImages(u)
    BY <1>1, <2>3, ActiveAfter
  <2>6. OnlyOf(u) /\ ActiveImages(u)' = {}
    BY <2>5 DEF OnlyOf, ActiveImages
  <2>7. pc'[p] = "upload.create" /\ ctx'[p] = ctx[p] /\ OthersStay(p)
    BY <1>1, <2>1, OneMoves DEF OthersStay
  <2>8. Clears(p, u)
    BY <2>1, <2>2, <2>4, <2>6, <2>7 DEF Clears
  <2> QED
    BY <2>7, <2>8 DEF Moves
<1>13. ASSUME NEW p \in Call, UploadCreate(p) PROVE Moved
  <2>1. pc[p] = "upload.create" /\ Answer(p) /\ failures' = failures
    BY <1>13 DEF UploadCreate
  <2>2. PICK u \in User : u = ctx[p].user
    BY <1>2, <2>1
  <2>3. ctx[p].key \in Key
    BY <2>1, Known DEF Knows, Uploading
  <2>4. PICK x : x = [user |-> u, key |-> ctx[p].key, isActive |-> TRUE]
    OBVIOUS
  <2>5. x \in Image /\ x.isActive /\ x.user = u
    BY <2>3, <2>4 DEF Image
  <2>6. images' = Append(images, x)
    BY <1>13, <2>2, <2>4 DEF UploadCreate
  <2>7. /\ OnlyOf(u) /\ ActiveImages(u)' = ActiveImages(u) \cup {Len(images) + 1}
        /\ Len(images') = Len(images) + 1
    BY <1>1, <2>5, <2>6, ActiveWithRow DEF OnlyOf
  <2>8. Adds(p, u)
    BY <1>1, <2>1, <2>2, <2>7, Nobody DEF Adds
  <2> QED
    BY <1>1, <2>1, <2>8, Nobody DEF Moves
<1>14. ASSUME NEW p \in Call, DeleteFind(p) PROVE Moved
  <2>1. pc[p] = "delete.find" /\ UNCHANGED <<images, failures>>
    BY <1>14 DEF DeleteFind, stores
  <2>2. CASE Answer(p)
    BY <1>4, <2>1, <2>2
  <2>3. ASSUME NEW i \in FindFirst(ActiveImages(ctx[p].user)), i # 0,
               Goto(p, "delete.update", [ctx[p] EXCEPT !.image = i])
        PROVE  Moved
    <3>1. PICK c : c = [ctx[p] EXCEPT !.image = i]
      OBVIOUS
    <3>2. c.user = ctx[p].user /\ c.image = i
      BY <1>2, <2>1, <3>1 DEF Context
    <3>3. Goto(p, "delete.update", c)
      BY <2>3, <3>1
    <3>4. i \in ActiveImages(ctx[p].user)
      BY <2>3 DEF FindFirst
    <3> QED
      BY <1>6, <2>1, <3>2, <3>3, <3>4
  <2> QED
    BY <1>14, <2>2, <2>3 DEF DeleteFind
<1>15. ASSUME NEW p \in Call, DeleteUpdate(p) PROVE Moved
  <2>1. /\ pc[p] = "delete.update" /\ Answer(p) /\ failures' = failures
        /\ Deactivate({ctx[p].image})
    BY <1>15 DEF DeleteUpdate
  <2>2. PICK u \in User : u = ctx[p].user
    BY <1>2, <2>1
  <2>3. PICK i : i = ctx[p].image
    OBVIOUS
  <2>4. Deactivate({i}) /\ images[i].user = u
    BY <2>1, <2>2, <2>3, Known DEF Knows
  <2>5. Len(images') = Len(images)
    BY <1>1, <2>4, Deactivation
  <2>6. \A v : ActiveImages(v)' = ActiveImages(v) \ {i}
    BY <1>1, <2>4, ActiveAfter
  <2>7. OnlyOf(u) /\ ActiveImages(u)' = ActiveImages(u) \ {ctx[p].image}
    BY <2>3, <2>4, <2>6 DEF OnlyOf, ActiveImages
  <2>8. Removes(p, u)
    BY <1>1, <2>1, <2>2, <2>5, <2>7, Nobody DEF Removes
  <2> QED
    BY <1>1, <2>1, <2>8, Nobody DEF Moves
<1>16. Manage => UNCHANGED <<images, pc, ctx, failures>>
  BY DEF Manage, stores
<1> QED
  BY <1>3, <1>7, <1>8, <1>9, <1>10, <1>11, <1>12, <1>13, <1>14, <1>15, <1>16
     DEF ImagesNext, ImagesStep, vars, stores

-----------------------------------------------------------------------------
\* What Observe makes of the step of call p, for a user v.
LEMMA Observed ==
    ASSUME Observe, NEW p \in Call, OthersStay(p), NEW v \in User
    PROVE  /\ v \in known' => \/ v \in known
                              \/ Settles(p) /\ ctx[p].user = v
           /\ v \in known' => ~(Disturbs(p) /\ ctx[p].user = v)
           /\ ~(p \in Uploaded /\ ctx[p].user = v) /\ ~(p \in Deleted /\ ctx[p].user = v)
                => expected'[v] = expected[v]
           /\ p \in Uploaded /\ ctx[p].user = v => expected'[v] = Len(images')
           /\ p \in Deleted /\ p \notin Uploaded /\ ctx[p].user = v => expected'[v] = 0
<1>1. \A q \in Call \ {p} : q \notin Uploaded /\ q \notin Deleted
  BY DEF OthersStay, Stays, Uploaded, Deleted
<1>2. \A q \in Call : Settles(q) => q = p
  BY <1>1 DEF Settles
<1>3. known' = (known \cup {ctx[q].user : q \in {r \in Call : Settles(r)}})
                  \ {ctx[q].user : q \in {r \in Call : Disturbs(r)}}
  BY DEF Observe
<1>4. /\ v \in known' => v \in known \/ (Settles(p) /\ ctx[p].user = v)
      /\ v \in known' => ~(Disturbs(p) /\ ctx[p].user = v)
  BY <1>2, <1>3
<1>5. expected'[v] = CASE \E q \in Uploaded : ctx[q].user = v -> Len(images')
                       [] \E q \in Deleted : ctx[q].user = v -> 0
                       [] OTHER -> expected[v]
  BY DEF Observe
<1>6. (\E q \in Uploaded : ctx[q].user = v) <=> (p \in Uploaded /\ ctx[p].user = v)
  BY <1>1 DEF Uploaded
<1>7. (\E q \in Deleted : ctx[q].user = v) <=> (p \in Deleted /\ ctx[p].user = v)
  BY <1>1 DEF Deleted
<1>8. p \in Uploaded => p \notin Deleted
  BY DEF Uploaded, Deleted
<1> QED
  BY <1>4, <1>5, <1>6, <1>7, <1>8

\* Which calls have met another one, after the step.
LEMMA Meetings ==
    ASSUME Observe, NEW q \in Call
    PROVE  q \in overlapped' <=>
              /\ pc'[q] # "idle"
              /\ \/ q \in overlapped
                 \/ \E r \in Call \ {q} : ctx'[r].user = ctx'[q].user
  BY DEF Observe

\* Users whom the step is not about.
LEMMA OthersDecided ==
    ASSUME Deciding, Observe, NEW p \in Call, OthersStay(p), NEW v \in User,
           ctx[p].user # v, ctx'[p].user # v, ActiveImages(v)' = ActiveImages(v)
    PROVE  Decided(v)'
<1>1. Decided(v)
  BY DEF Deciding
<1>2. /\ InFlight(v)' = InFlight(v)
      /\ \A q \in InFlight(v) : q # p /\ pc'[q] = pc[q] /\ ctx'[q] = ctx[q]
  BY DEF InFlight, OthersStay, Stays
<1>3. \A q \in InFlight(v) : pc[q] # "idle"
  BY UserAssumption DEF Deciding, InFlight
<1>4. ASSUME NEW q \in InFlight(v)
      PROVE  q \in overlapped' <=> q \in overlapped
  <2>1. q \in Call /\ ctx'[q].user = v /\ pc'[q] # "idle"
    BY <1>2, <1>3 DEF InFlight
  <2>2. q \in overlapped => q \in overlapped'
    BY <2>1, Meetings
  <2>3. ASSUME q \notin overlapped, NEW r \in Call \ {q}, ctx'[r].user = v
        PROVE  FALSE
    <3>1. InFlight(v) = {q}
      BY <1>1, <2>3 DEF Decided
    <3>2. r \in InFlight(v)
      BY <2>3, <1>2 DEF InFlight
    <3> QED
      BY <2>3, <3>1, <3>2
  <2> QED
    BY <2>1, <2>2, <2>3, Meetings
<1>5. expected'[v] = expected[v] /\ (v \in known' => v \in known)
  BY Observed
<1> QED
  BY <1>1, <1>2, <1>4, <1>5 DEF Decided

\* A call that is not the last one of its user to be in flight has met it.
LEMMA EndDecided ==
    ASSUME Deciding, Observe, NEW p \in Call, OthersStay(p), NEW u \in User,
           ctx[p].user = u, pc[p] # "idle", pc'[p] = "idle", ctx'[p].user = None,
           p \notin overlapped /\ u \in known' => ActiveImages(u)' = {expected'[u]} \ {0}
    PROVE  Decided(u)'
<1>1. Decided(u)
  BY DEF Deciding
<1>2. /\ InFlight(u)' = InFlight(u) \ {p} /\ p \in InFlight(u)
      /\ \A q \in InFlight(u)' : pc'[q] = pc[q] /\ ctx'[q] = ctx[q] /\ q \in Call
  BY UserAssumption DEF InFlight, OthersStay, Stays
<1>3. CASE p \notin overlapped
  <2>1. InFlight(u)' = {}
    BY <1>1, <1>2, <1>3 DEF Decided
  <2> QED
    BY <1>3, <2>1 DEF Decided
<1>4. CASE p \in overlapped
  <2>1. u \notin known'
    BY <1>4, Observed DEF Disturbs, Ended
  <2>2. ASSUME NEW q \in InFlight(u)', q \notin overlapped'
        PROVE  FALSE
    <3>1. q \in Call /\ pc'[q] # "idle" /\ q \in InFlight(u) /\ q # p
      BY <1>2, UserAssumption DEF Deciding, InFlight
    <3>2. q \notin overlapped
      BY <2>2, <3>1, Meetings
    <3> QED
      BY <1>1, <1>2, <3>1, <3>2 DEF Decided
  <2> QED
    BY <2>1, <2>2 DEF Decided
<1> QED
  BY <1>3, <1>4

LEMMA OpensDecided ==
    ASSUME Deciding, Observe, NEW p \in Call, OthersStay(p), NEW u \in User,
           Opens(p, u)
    PROVE  Decided(u)'
<1>1. Decided(u) /\ ctx[p].user # u /\ p \notin overlapped
  BY UserAssumption DEF Deciding, Opens
<1>2. /\ InFlight(u)' = InFlight(u) \cup {p} /\ p \notin InFlight(u)
      /\ \A q \in InFlight(u) : pc'[q] = pc[q] /\ ctx'[q] = ctx[q] /\ pc[q] # "idle"
  BY <1>1, UserAssumption DEF Deciding, InFlight, OthersStay, Stays, Opens
<1>3. CASE InFlight(u) = {}
  <2>1. expected'[u] = expected[u] /\ (u \in known' => u \in known)
    BY <1>1, Observed
  <2>2. ActiveImages(u)' = ActiveImages(u)
    BY DEF Opens, ActiveImages
  <2>3. InFlight(u)' = {p} /\ pc'[p] = "validate"
    BY <1>2, <1>3 DEF Opens
  <2>4. u \in known => ActiveImages(u) = {expected[u]} \ {0}
    BY <1>1, <1>3 DEF Decided
  <2> QED
    BY <2>1, <2>2, <2>3, <2>4 DEF Decided
<1>4. CASE InFlight(u) # {}
  <2>1. ASSUME NEW q \in InFlight(u)'
        PROVE  q \in overlapped'
    <3>1. q \in Call /\ pc'[q] # "idle" /\ ctx'[q].user = u
      BY <1>2 DEF InFlight, Opens
    <3>2. \E r \in InFlight(u)' : r # q
      BY <1>2, <1>4
    <3>3. \E r \in Call \ {q} : ctx'[r].user = u
      BY <3>2 DEF InFlight
    <3> QED
      BY <3>1, <3>3, Meetings
  <2> QED
    BY <1>2, <2>1 DEF Decided
<1> QED
  BY <1>3, <1>4

LEMMA GoesOnDecided ==
    ASSUME Deciding, Observe, NEW p \in Call, OthersStay(p), NEW u \in User,
           Passes(p, u) \/ Clears(p, u)
    PROVE  Decided(u)'
<1>1. Decided(u)
  BY DEF Deciding
<1>2. /\ p \in InFlight(u) /\ InFlight(u)' = InFlight(u)
      /\ \A q \in InFlight(u) : q \in Call /\ ctx'[q].user = u /\ pc'[q] # "idle"
  BY UserAssumption DEF Deciding, InFlight, OthersStay, Stays, Passes, Clears
<1>3. ASSUME NEW q \in InFlight(u), q \notin overlapped'
      PROVE  q \notin overlapped /\ InFlight(u) = {q} /\ q = p
  <2>1. q \notin overlapped
    BY <1>2, <1>3, Meetings
  <2> QED
    BY <1>1, <1>2, <2>1 DEF Decided
<1>4. expected'[u] = expected[u] /\ (u \in known' => u \in known)
  BY Observed DEF Passes, Clears, Uploaded, Deleted, Settles
<1>5. CASE Passes(p, u)
  <2>1. ActiveImages(u)' = ActiveImages(u)
    BY <1>5 DEF Passes, ActiveImages
  <2>2. /\ pc[p] # "upload.create" /\ pc'[p] # "upload.create"
        /\ pc'[p] = "delete.update" => ctx'[p].image \in ActiveImages(u)
    BY <1>5 DEF Passes
  <2>3. ASSUME u \in known', \A q \in InFlight(u) : q \notin overlapped'
        PROVE  ActiveImages(u)' = {expected'[u]} \ {0}
    <3>1. \A q \in InFlight(u) : q \notin overlapped /\ pc[q] # "upload.create"
      BY <1>3, <2>2, <2>3
    <3> QED
      BY <1>1, <1>4, <2>1, <2>3, <3>1 DEF Decided
  <2> QED
    BY <1>2, <1>3, <2>1, <2>2, <2>3 DEF Decided
<1>6. CASE Clears(p, u)
  <2>1. ActiveImages(u)' = {} /\ pc'[p] = "upload.create"
    BY <1>6 DEF Clears
  <2> QED
    BY <1>2, <1>3, <2>1 DEF Decided
<1> QED
  BY <1>5, <1>6

LEMMA EndsDecided ==
    ASSUME Deciding, Observe, NEW p \in Call, OthersStay(p), NEW u \in User,
           Replies(p, u) \/ Breaks(p, u) \/ Adds(p, u) \/ Removes(p, u)
    PROVE  Decided(u)'
<1> SUFFICES ASSUME p \notin overlapped, u \in known'
             PROVE  ActiveImages(u)' = {expected'[u]} \ {0}
  BY EndDecided DEF Replies, Breaks, Adds, Removes
<1>1. /\ Decided(u) /\ images \in Seq(Image) /\ failures \in Nat
      /\ p \in InFlight(u) \ overlapped
  BY DEF Deciding, ImagesKnown, ImagesTypeOK, InFlight, Replies, Breaks, Adds, Removes
<1>2. /\ InFlight(u) = {p}
      /\ pc[p] = "upload.create" => ActiveImages(u) = {}
      /\ pc[p] = "delete.update" => ctx[p].image \in ActiveImages(u)
      /\ u \in known /\ pc[p] # "upload.create"
            => ActiveImages(u) = {expected[u]} \ {0}
  BY <1>1 DEF Decided
<1>3. CASE Replies(p, u) \/ Breaks(p, u)
  <2>1. p \notin Uploaded /\ p \notin Deleted
    BY <1>1, <1>3 DEF Replies, Breaks, Uploaded, Deleted
  <2>2. u \in known /\ expected'[u] = expected[u]
    BY <2>1, Observed DEF Settles
  <2>3. pc[p] # "upload.create"
    BY <1>1, <1>3, Observed DEF Replies, Breaks, Disturbs, Ended
  <2>4. ActiveImages(u)' = ActiveImages(u)
    BY <1>3 DEF Replies, Breaks, ActiveImages
  <2> QED
    BY <1>2, <2>2, <2>3, <2>4
<1>4. CASE Adds(p, u)
  <2>1. Len(images) \in Nat
    BY <1>1
  <2>2. p \in Uploaded
    BY <1>4, <2>1 DEF Adds, Uploaded
  <2>3. expected'[u] = Len(images) + 1
    BY <1>4, <2>2, Observed DEF Adds
  <2>4. ActiveImages(u)' = {Len(images) + 1}
    BY <1>2, <1>4 DEF Adds
  <2> QED
    BY <2>1, <2>3, <2>4
<1>5. CASE Removes(p, u)
  <2>1. p \in Deleted /\ p \notin Uploaded
    BY <1>5 DEF Removes, Deleted, Uploaded
  <2>2. u \in known /\ expected'[u] = 0
    BY <1>5, <2>1, Observed DEF Removes, Settles
  <2>3. /\ ActiveImages(u) = {expected[u]} \ {0} /\ ctx[p].image \in ActiveImages(u)
        /\ ActiveImages(u)' = ActiveImages(u) \ {ctx[p].image}
    BY <1>2, <1>5, <2>2 DEF Removes
  <2> QED
    BY <2>2, <2>3
<1> QED
  BY <1>3, <1>4, <1>5

LEMMA DecidingStep ==
    ASSUME Deciding, [ObservedNext]_<<vars, history>>
    PROVE  Deciding'
<1>1. CASE UNCHANGED <<vars, history>>
  BY <1>1 DEF vars, stores, history, Deciding, ImagesKnown, ImagesTypeOK,
              AccountsOK, Knows, KeysAreTheirUsers, Decided, InFlight, ActiveImages
<1>2. CASE ObservedNext
  <2>1. ImagesKnown' /\ ImagesKnown /\ Observe
    BY <1>2, ImagesStepKnown DEF ObservedNext, Deciding
  <2>2. known' \subseteq User
    <3>1. known' \subseteq known \cup {ctx[q].user : q \in {r \in Call : Settles(r)}}
      BY <2>1 DEF Observe
    <3>2. \A q \in Call : Settles(q) => ctx[q].user \in User
      BY <2>1, Known DEF Settles, Uploaded, Knows
    <3> QED
      BY <3>1, <3>2 DEF Deciding
  <2>3. CASE UNCHANGED <<images, pc, ctx, failures>>
    <3>1. \A q \in Call : ~Ended(q) /\ q \notin Uploaded /\ q \notin Deleted
      BY <2>3 DEF Ended, Uploaded, Deleted
    <3>2. ASSUME NEW u \in User
          PROVE  Decided(u)'
      <4>1. Decided(u)
        BY DEF Deciding
      <4>2. InFlight(u)' = InFlight(u) /\ ActiveImages(u)' = ActiveImages(u)
        BY <2>3 DEF InFlight, ActiveImages
      <4>3. expected'[u] = expected[u]
        BY <2>1, <3>1 DEF Observe, Uploaded, Deleted
      <4>4. u \in known' => u \in known
        BY <2>1, <3>1 DEF Observe, Settles
      <4>5. \A q \in InFlight(u) : q \in Call /\ pc[q] # "idle" /\ ctx[q].user = u
        BY UserAssumption DEF Deciding, InFlight
      <4>6. \A q \in InFlight(u) : q \in overlapped => q \in overlapped'
        BY <2>1, <2>3, <4>5, Meetings
      <4>7. \A q \in InFlight(u) : q \in overlapped' => q \in overlapped
        BY <2>1, <2>3, <4>1, <4>5, Meetings DEF Decided, InFlight
      <4> QED
        BY <2>3, <4>1, <4>2, <4>3, <4>4, <4>6, <4>7 DEF Decided
    <3>3. \A q \in Call : pc'[q] = "idle" => ctx'[q].user = None /\ q \notin overlapped'
      BY <2>1, <2>3, Meetings DEF Deciding
    <3> QED
      BY <2>1, <2>2, <3>2, <3>3 DEF Deciding
  <2>4. ASSUME NEW p \in Call, NEW u \in User, OthersStay(p), Moves(p, u)
        PROVE  Deciding'
    <3>1. Decided(u)'
      BY <2>1, <2>4, OpensDecided, GoesOnDecided, EndsDecided DEF Moves
    <3>2. ASSUME NEW v \in User \ {u}
          PROVE  Decided(v)'
      <4>1. /\ ctx[p].user # v /\ ctx'[p].user # v
            /\ ActiveImages(v)' = ActiveImages(v)
        BY <2>4, UserAssumption DEF Moves, Opens, Passes, Clears, Replies, Breaks,
           Adds, Removes, OnlyOf, ActiveImages, Deciding
      <4> QED
        BY <2>1, <2>4, <4>1, OthersDecided
    <3>3. \A q \in Call : pc'[q] = "idle" => ctx'[q].user = None
      BY <2>4 DEF Moves, Opens, Passes, Clears, Replies, Breaks, Adds, Removes,
         OthersStay, Stays, Deciding
    <3>4. \A q \in Call : pc'[q] = "idle" => q \notin overlapped'
      BY <2>1, Meetings
    <3> QED
      BY <2>1, <2>2, <3>1, <3>2, <3>3, <3>4 DEF Deciding
  <2> QED
    BY <1>2, <2>1, <2>3, <2>4, Movements DEF ObservedNext
<1> QED
  BY <1>1, <1>2

\* A user who makes one call at a time has the image last uploaded, or none
\* after removing it; and one upload that nothing overlaps puts right whatever
\* overlapping, refused or dying calls left.
THEOREM LoneCallsSettle == ObservedSpec => []LoneCallsDecide
<1>1. ObservedInit => Deciding
  <2> SUFFICES ASSUME ObservedInit PROVE Deciding
    OBVIOUS
  <2>1. /\ ImagesKnown /\ DOMAIN images = {} /\ overlapped = {} /\ known = User
        /\ \A p \in Call : pc[p] = "idle" /\ ctx[p] = NoContext
        /\ \A u \in User : expected[u] = 0
    BY ImagesInitKnown DEF ObservedInit, ImagesInit
  <2>2. \A p \in Call : ctx[p].user = None
    BY <2>1 DEF NoContext
  <2>3. \A u \in User : InFlight(u) = {} /\ ActiveImages(u) = {}
    BY <2>1, <2>2, UserAssumption DEF InFlight, ActiveImages
  <2> QED
    BY <2>1, <2>2, <2>3 DEF Deciding, Decided
<1>2. Deciding /\ [ObservedNext]_<<vars, history>> => Deciding'
  BY DecidingStep
<1>3. Deciding => LoneCallsDecide
  <2> SUFFICES ASSUME Deciding, NEW u \in known, Quiet(u)
               PROVE  ActiveImages(u) = {expected[u]} \ {0}
    BY DEF LoneCallsDecide
  <2>1. Decided(u)
    BY DEF Deciding
  <2> QED
    BY <2>1 DEF Decided, Quiet
<1> QED
  BY <1>1, <1>2, <1>3, PTL DEF ObservedSpec
=============================================================================
