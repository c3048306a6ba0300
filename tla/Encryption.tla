------------------------------ MODULE Encryption ------------------------------
(***************************************************************************)
(* Server-side encryption: what a request says of it on the wire            *)
(* (types/encryption.ts, raw/index.ts), what the simulator makes of that    *)
(* (simulator/index.ts), and who may read or write under it.  A customer's  *)
(* key is a model value and stands for its MD5 as well.                     *)
(***************************************************************************)
CONSTANT CustomerKey

Absent == "absent"
Malformed == "malformed"
Aes256 == "AES256"

\* What the simulator keeps of a file: the mode, and the digest of a customer's key.
Plain == [mode |-> "none", key |-> Absent]
Managed == [mode |-> "SSE-B2", key |-> Absent]
Customer(k) == [mode |-> "SSE-C", key |-> k]
Refused == [mode |-> "refused", key |-> Absent]

\* A setting in a JSON body: mode "null" is the wire form of no encryption.
Setting(mode, algorithm, key, md5) == [mode |-> mode, algorithm |-> algorithm, key |-> key, md5 |-> md5]

NoKeyGiven(s) == s.key = Absent /\ s.md5 = Absent
GoodKey(s) == s.algorithm = Aes256 /\ s.key \in CustomerKey /\ s.md5 = s.key

\* storedServerSideEncryption
StoredEncryption(s) ==
    CASE s.mode = "SSE-C" /\ GoodKey(s) -> Customer(s.key)
      [] s.mode = "SSE-B2" /\ NoKeyGiven(s) /\ s.algorithm = Aes256 -> Managed
      [] s.mode = "none" /\ NoKeyGiven(s) -> Plain
      [] s.mode = "null" /\ NoKeyGiven(s) /\ s.algorithm = Absent -> Plain
      [] OTHER -> Refused

\* The headers of an upload or of a download.
Headers(managed, algorithm, key, md5) ==
    [managed |-> managed, algorithm |-> algorithm, key |-> key, md5 |-> md5]
NoHeaders == Headers(Absent, Absent, Absent, Absent)

HasCustomerHeaders(h) == h.algorithm # Absent \/ h.key # Absent \/ h.md5 # Absent
CustomerSetting(h) == Setting("SSE-C", h.algorithm, h.key, h.md5)

\* uploadServerSideEncryption: the customer's headers, the managed header, or the bucket's default.
UploadEncryption(h, default) ==
    CASE HasCustomerHeaders(h) /\ h.managed = Absent -> StoredEncryption(CustomerSetting(h))
      [] ~ HasCustomerHeaders(h) /\ h.managed = Aes256 -> Managed
      [] ~ HasCustomerHeaders(h) /\ h.managed = Absent -> default
      [] OTHER -> Refused

\* Mutant: one customer's key is as good as another's.
SameMode(a, b) == a.mode = b.mode

\* sameStoredServerSideEncryption
SameEncryption(a, b) == a = b

\* validateDownloadEncryption: the key first, then whether it is the file's.
DownloadAccepted(e, h) ==
    e.mode = "SSE-C" => GoodKey(h) /\ SameEncryption(e, Customer(h.key))

\* validateUploadPartEncryption
PartAccepted(e, h) ==
    IF e.mode = "SSE-C" THEN SameEncryption(e, StoredEncryption(CustomerSetting(h)))
    ELSE ~ HasCustomerHeaders(h)

\* validateSourceServerSideEncryption
SourceAccepted(e, s) ==
    e.mode = "SSE-C" => s.mode = "SSE-C" /\ SameEncryption(e, StoredEncryption(s))

NotSet == Setting(Absent, Absent, Absent, Absent)

\* resolveCopyDestinationEncryption
CopyEncryption(s, default) == IF s = NotSet THEN default ELSE StoredEncryption(s)

\* validateCopyPartDestinationEncryption
PartDestinationAccepted(e, s) ==
    IF s = NotSet THEN e.mode # "SSE-C" ELSE SameEncryption(e, StoredEncryption(s))

-----------------------------------------------------------------------------
(* The client's settings (SSE_NONE, SSE_B2, a customer's key and its MD5) as headers.       *)

\* applyEncryptionHeaders
EncryptionHeaders(s) ==
    CASE s.mode = "SSE-B2" -> Headers(Aes256, Absent, Absent, Absent)
      [] s.mode = "SSE-C" -> Headers(Absent, Aes256, s.key, s.md5)
      [] OTHER -> NoHeaders
=============================================================================
