---------------------------- MODULE ObjectStores ----------------------------
(***************************************************************************)
(* What one call of the bucket backends may do to one object               *)
(* (internal/caching/backends: s3.go, gcs.go and azure.go).  The services  *)
(* are external: a request may be lost, and so may its answer.  A call is  *)
(* a set of outcomes: what the object is afterwards and whether the caller *)
(* got nil.  An object is                                                  *)
(*   "none"     absent                                                     *)
(*   "pending"  the destination of an Azure copy that has not ended        *)
(*   "failed"   the destination of an Azure copy that has failed           *)
(*   "partial"  stored with a part of its bytes (never, if all is well)    *)
(*   "full"     stored with all of them.                                   *)
(***************************************************************************)

Vendors == {"s3", "gcs", "azure"}
Objects == {"none", "pending", "failed", "partial", "full"}
\* the objects a request without content (HEAD, properties) reports as there
Listed(object) == object # "none"

Outcome(object, ok) == [object |-> object, ok |-> ok]
\* A request that turns old into new: done, lost, or done and not answered.
Request(old, new) == {Outcome(new, TRUE), Outcome(new, FALSE), Outcome(old, FALSE)}

\* A pipe's reader sees the end of the stream or the error it was closed with.
Streams == [end : {"open", "eof", "error"}, whole : BOOLEAN]
Received(stream) == IF stream.whole THEN "full" ELSE "partial"

-----------------------------------------------------------------------------
(* Storing an object: Set, and the upload behind a staged writer.          *)

\* PutObject: the transfer manager stores nothing when its reader fails.
S3Put(old, stream) ==
  IF stream.end = "eof" THEN Request(old, Received(stream)) ELSE {Outcome(old, FALSE)}

\* The writer is closed, which stores the object, only after a complete copy;
\* after an error it is left open and dies with the context of the call.
GcsPut(old, stream) ==
  IF stream.end = "eof" THEN Request(old, Received(stream)) ELSE {Outcome(old, FALSE)}

\* UploadStream commits its block list at the end of the stream.  A blob that
\* is the destination of a running copy refuses the write.
AzurePut(old, stream) ==
  IF stream.end = "eof" /\ old # "pending"
  THEN Request(old, Received(stream)) ELSE {Outcome(old, FALSE)}

Put(vendor, old, stream) ==
  CASE vendor = "s3" -> S3Put(old, stream)
    [] vendor = "gcs" -> GcsPut(old, stream)
    [] vendor = "azure" -> AzurePut(old, stream)

\* Set of each backend
S3Set(old, stream) == S3Put(old, stream)
AzureSet(old, stream) == AzurePut(old, stream)
Set(vendor, old, stream) ==
  CASE vendor = "s3" -> S3Set(old, stream)
    [] vendor = "gcs" -> GcsPut(old, stream)
    [] vendor = "azure" -> AzureSet(old, stream)

-----------------------------------------------------------------------------
(* Asking for an object: "yes", "no", or an error.                         *)

\* NoSuchKey and NotFound are the answer no.
S3Exists(object) == {IF Listed(object) THEN "yes" ELSE "no", "error"}
\* ErrObjectNotExist is
GcsExists(object) == {IF Listed(object) THEN "yes" ELSE "no", "error"}
\* GetProperties, which also answers while a copy to the blob goes on or has
\* failed: the answer is yes for a blob that AzureGet does not read, since its
\* CopyStatus is not looked at.  An error whose text has BlobNotFound is no.
AzureExists(object) == {IF Listed(object) THEN "yes" ELSE "no", "error"}
Exists(vendor, object) ==
  CASE vendor = "s3" -> S3Exists(object)
    [] vendor = "gcs" -> GcsExists(object)
    [] vendor = "azure" -> AzureExists(object)

\* Get: the objects a reader may be opened on
S3Get(object) == {object} \cap {"partial", "full"}
GcsGet(object) == {object} \cap {"partial", "full"}
\* A destination whose copy has not succeeded has no content to read.
AzureGet(object) == {object} \cap {"partial", "full"}
Get(vendor, object) ==
  CASE vendor = "s3" -> S3Get(object)
    [] vendor = "gcs" -> GcsGet(object)
    [] vendor = "azure" -> AzureGet(object)

-----------------------------------------------------------------------------
(* Deleting an object: S3 takes an absent one for deleted, the others      *)
(* return an error.                                                        *)

S3Delete(old) == Request(old, "none")
GcsDelete(old) == IF old = "none" THEN {Outcome(old, FALSE)} ELSE Request(old, "none")
AzureDelete(old) == IF old = "none" THEN {Outcome(old, FALSE)} ELSE Request(old, "none")
Delete(vendor, old) ==
  CASE vendor = "s3" -> S3Delete(old)
    [] vendor = "gcs" -> GcsDelete(old)
    [] vendor = "azure" -> AzureDelete(old)

-----------------------------------------------------------------------------
(* Staged writers.                                                         *)

\* Cancel, up to its cleanup: the staging object that is left.  S3 and Azure
\* make the upload fail; Google's writer can only be closed, which stores
\* what it was given.
S3Abort(staging) == {staging}
GcsAbort(staging) == {staging, "partial"}
AzureAbort(staging) == {staging}
Abort(vendor, staging) ==
  CASE vendor = "s3" -> S3Abort(staging)
    [] vendor = "gcs" -> GcsAbort(staging)
    [] vendor = "azure" -> AzureAbort(staging)

\* Commit's copy of the staging object to its final key.  S3 and Google copy
\* before they answer; Azure only starts to, and a destination that was there
\* gives up its content.  It refuses a second copy while one goes on.
S3Copy(staging, old) == Request(old, staging)
GcsCopy(staging, old) == Request(old, staging)
AzureStartCopy(old) ==
  IF old = "pending" THEN {Outcome(old, FALSE)} ELSE Request(old, "pending")
=============================================================================
