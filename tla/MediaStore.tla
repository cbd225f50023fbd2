----------------------------- MODULE MediaStore -----------------------------
(***************************************************************************)
(* The pictures: an object in the storage service and a row of media_files *)
(* for each.  The two are not changed together.  A request to the storage  *)
(* may be answered with an error, or not in time: it may still be carried  *)
(* out later.  The pictures of reviews are those of one customer.          *)
(***************************************************************************)
EXTENDS Naturals, FiniteSets

CONSTANTS
  Keys,      \* bound: the storage keys that are drawn, each at random
  Uploaders, \* connections, each serving one request
  NoKey,
  DayLimit   \* REVIEW_UPLOAD_LIMIT_PER_DAY

VARIABLES
  objects,   \* the objects in the bucket
  sent,      \* objects on their way: the storage has not carried the upload out
  rows,      \* rows[purpose]: the keys of media_files
  recent,    \* those of purpose REVIEW that were inserted in the last 24 hours
  drawn,     \* the keys drawn so far
  transfer,  \* transfer[u]: the request of connection u
  gaveUp,    \* history: uploads that ended with a timeout, a crash or a failed clean-up
  removing   \* history: objects that some request asked the storage to delete

mediaVars == <<objects, sent, rows, recent, drawn, transfer, gaveUp, removing>>

ASSUME MediaAssumption ==
  DayLimit \in Nat \ {0} /\ IsFiniteSet(Keys) /\ IsFiniteSet(Uploaders) /\ NoKey \notin Keys

-----------------------------------------------------------------------------
Purposes == {"LIBRARY", "REVIEW"}
AllRows == rows["LIBRARY"] \cup rows["REVIEW"]

Transfer(step, k, purpose) == [step |-> step, key |-> k, purpose |-> purpose]
NoTransfer == Transfer("idle", NoKey, "LIBRARY")

GoesOn(u, step) == transfer' = [transfer EXCEPT ![u].step = step]
Finishes(u) == transfer' = [transfer EXCEPT ![u] = NoTransfer]

\* Mutant of WithinLimit: one picture too many.
WithinLimitOrAt == Cardinality(recent) <= DayLimit

\* The pictures of the last 24 hours are counted before the upload, and not again.
WithinLimit == Cardinality(recent) < DayLimit

-----------------------------------------------------------------------------
\* upload: the file is a picture, the limit is kept, a key is drawn; the object is sent.
UploadMedia(u, purpose, k) ==
  /\ transfer[u] = NoTransfer
  /\ purpose = "REVIEW" => WithinLimit
  /\ k \notin drawn
  /\ drawn' = drawn \cup {k}
  /\ sent' = sent \cup {k}
  /\ transfer' = [transfer EXCEPT ![u] = Transfer("post", k, purpose)]
  /\ UNCHANGED <<objects, rows, recent, gaveUp, removing>>

\* The storage carries an upload out, or refuses it (too large, no credentials).
Stored(k) ==
  /\ sent' = sent \ {k}
  /\ objects' = objects \cup {k}
  /\ UNCHANGED <<rows, recent, drawn, transfer, gaveUp, removing>>

RefuseMedia(u) ==
  /\ transfer[u].step = "post"
  /\ transfer[u].key \in sent
  /\ sent' = sent \ {transfer[u].key}
  /\ Finishes(u)
  /\ UNCHANGED <<objects, rows, recent, drawn, gaveUp, removing>>

GetsAnswer(u) ==
  /\ transfer[u].step = "post"
  /\ transfer[u].key \in objects
  /\ GoesOn(u, "insert")
  /\ UNCHANGED <<objects, sent, rows, recent, drawn, gaveUp, removing>>

\* INSERT of the row; when it fails the object is deleted again.
InsertRow(u) ==
  LET k == transfer[u].key
      purpose == transfer[u].purpose
  IN  /\ transfer[u].step = "insert"
      /\ rows' = [rows EXCEPT ![purpose] = @ \cup {k}]
      /\ recent' = IF purpose = "REVIEW" THEN recent \cup {k} ELSE recent
      /\ Finishes(u)
      /\ UNCHANGED <<objects, sent, drawn, gaveUp, removing>>

\* Mutant of InsertFails: the object is left behind.
InsertFailsOnly(u) ==
  /\ transfer[u].step = "insert"
  /\ Finishes(u)
  /\ UNCHANGED <<objects, sent, rows, recent, drawn, gaveUp, removing>>

InsertFails(u) ==
  /\ transfer[u].step = "insert"
  /\ GoesOn(u, "undo")
  /\ UNCHANGED <<objects, sent, rows, recent, drawn, gaveUp, removing>>

-----------------------------------------------------------------------------
\* delete: only pictures of the library; the object first.
DeleteMedia(u, k) ==
  /\ transfer[u] = NoTransfer
  /\ k \in rows["LIBRARY"]
  /\ transfer' = [transfer EXCEPT ![u] = Transfer("remove", k, "LIBRARY")]
  /\ UNCHANGED <<objects, sent, rows, recent, drawn, gaveUp, removing>>

\* removeObject: the storage deletes the object; it does not mind one that is gone.
\* The answer may be lost, or the storage may refuse.
RemoveObject(u, answered) ==
  LET k == transfer[u].key
  IN  /\ transfer[u].step \in {"undo", "remove"}
      /\ removing' = removing \cup {k}
      /\ objects' = objects \ {k}
      /\ \/ transfer[u].step = "remove" /\ answered /\ GoesOn(u, "deleteRow")
         \/ ~(transfer[u].step = "remove" /\ answered) /\ Finishes(u)
      /\ UNCHANGED <<sent, rows, recent, drawn, gaveUp>>

RemoveFails(u) ==
  LET k == transfer[u].key
  IN  /\ transfer[u].step \in {"undo", "remove"}
      /\ gaveUp' = IF transfer[u].step = "undo" THEN gaveUp \cup {k} ELSE gaveUp
      /\ removing' = removing \cup {k}
      /\ Finishes(u)
      /\ UNCHANGED <<objects, sent, rows, recent, drawn>>

\* A deletion that got no answer in time is carried out later.
LateRemove(k) ==
  /\ objects' = objects \ {k}
  /\ UNCHANGED <<sent, rows, recent, drawn, transfer, gaveUp, removing>>

\* DELETE of the row
DeleteRow(u) ==
  /\ transfer[u].step = "deleteRow"
  /\ rows' = [rows EXCEPT !["LIBRARY"] = @ \ {transfer[u].key}]
  /\ Finishes(u)
  /\ UNCHANGED <<objects, sent, recent, drawn, gaveUp, removing>>

-----------------------------------------------------------------------------
\* The request ends here: the storage does not answer within STORAGE_TIMEOUT_MS, or
\* the process stops.
GiveUp(u) ==
  /\ transfer[u] # NoTransfer
  /\ gaveUp' = IF transfer[u].step \in {"post", "insert", "undo"}
               THEN gaveUp \cup {transfer[u].key} ELSE gaveUp
  /\ Finishes(u)
  /\ UNCHANGED <<objects, sent, rows, recent, drawn, removing>>

\* A day passes for a picture.
DayPasses(k) ==
  /\ recent' = recent \ {k}
  /\ UNCHANGED <<objects, sent, rows, drawn, transfer, gaveUp, removing>>

-----------------------------------------------------------------------------
MediaInit ==
  /\ objects = {} /\ sent = {} /\ recent = {} /\ drawn = {} /\ gaveUp = {} /\ removing = {}
  /\ rows = [purpose \in Purposes |-> {}]
  /\ transfer = [u \in Uploaders |-> NoTransfer]

MediaNext ==
  \/ \E u \in Uploaders :
       \/ \E k \in Keys : DeleteMedia(u, k) \/ \E purpose \in Purposes : UploadMedia(u, purpose, k)
       \/ RefuseMedia(u) \/ GetsAnswer(u) \/ InsertRow(u) \/ InsertFails(u)
       \/ \E answered \in BOOLEAN : RemoveObject(u, answered)
       \/ RemoveFails(u) \/ DeleteRow(u) \/ GiveUp(u)
  \/ \E k \in sent : Stored(k)
  \/ \E k \in removing : LateRemove(k)
  \/ \E k \in recent : DayPasses(k)

MediaSpec == MediaInit /\ [][MediaNext]_mediaVars

-----------------------------------------------------------------------------
MediaTypeOK ==
  /\ objects \subseteq Keys /\ sent \subseteq Keys /\ drawn \subseteq Keys
  /\ gaveUp \subseteq Keys /\ removing \subseteq Keys
  /\ rows \in [Purposes -> SUBSET Keys]
  /\ recent \subseteq rows["REVIEW"]
  /\ transfer \in [Uploaders ->
       [step: {"idle", "post", "insert", "undo", "remove", "deleteRow"},
        key: Keys \cup {NoKey}, purpose: Purposes]]

\* The uploads that have a key and no row yet.
Uploading == {u \in Uploaders : transfer[u].step \in {"post", "insert", "undo"}}

\* An object without a row belongs to an upload that is running or that ended with a
\* timeout, a crash or a failed clean-up: neither the failure of an INSERT nor a
\* deletion, answered or not, leaves one behind.  A row without its object is one of the
\* library whose deletion has begun, and a second deletion can finish it; the picture of
\* a review never loses its object.
ObjectsAndRows ==
  /\ \A k \in objects \cup sent :
       k \in AllRows \/ k \in gaveUp \/ \E u \in Uploading : transfer[u].key = k
  /\ \A k \in rows["REVIEW"] : k \in objects
  /\ \A k \in rows["LIBRARY"] : k \in objects \/ k \in removing

\* Uploads at once pass the daily limit of a customer, by one less than the number of
\* connections at most: each of them counts the rows while the others have none yet.
LimitPassedByOverlap ==
  Cardinality(recent) + Cardinality({u \in Uploading : transfer[u].purpose = "REVIEW"})
    <= DayLimit + Cardinality(Uploaders) - 1
=============================================================================
