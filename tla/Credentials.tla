---------------------------- MODULE Credentials ----------------------------
(***************************************************************************)
(* The OAuth login of a provider: the file that keeps its tokens           *)
(* (credentials.Store over localstore.AtomicWrite), the copy each part of  *)
(* the program read from it at start, and the refresh of an expired token  *)
(* by whoever needs it (Store.Resolve).                                    *)
(*                                                                         *)
(* A token is the number of its refresh token, 0 for no login; the server  *)
(* accepts only the newest, and may or may not rotate it at a refresh.  A  *)
(* file is an inode: a second writer of the same name writes into the      *)
(* first one's.                                                            *)
(***************************************************************************)
EXTENDS Naturals, FiniteSets

CONSTANTS
  Requests,    \* requests and pings that need the credential
  HolderOf,    \* HolderOf[r]: whose copy r uses; "screen" also logs in and out
  MaxTokens    \* refresh tokens the server ever issues

Holders == {"gateway", "screen"}
CredentialsAssumption ==
  IsFiniteSet(Requests) /\ HolderOf \in [Requests -> Holders] /\ MaxTokens \in Nat

Screen == "the accounts screen"   \* the writer behind Login and Logout
Writers == Requests \cup {Screen}
Holder(w) == IF w = Screen THEN "screen" ELSE HolderOf[w]
Inodes == 1..(Cardinality(Writers) + 2)
NoFile == 0
Partial == MaxTokens + 1          \* what is in a file that was opened and not written

VARIABLES
  token, fresh,  \* oauth of each holder: the token, and whether it is valid yet
  issued,        \* the newest refresh token of the server
  at,            \* at[w]: idle, asking, answered, saving, written, synced, removed
  value,         \* value[w]: the token w asks with, or is to save
  fd,            \* fd[w]: the inode w writes
  data,          \* content of each inode
  path, tmp,     \* what the two names refer to
  saved,         \* the token saved last (history)
  spoilt         \* writers overlapped, or a crash hit the window (history)

memory == <<token, fresh>>
disk == <<data, path, tmp, fd>>
credVars == <<memory, issued, at, value, disk, saved, spoilt>>

Init ==
  /\ token = [h \in Holders |-> 0] /\ fresh = [h \in Holders |-> FALSE]
  /\ issued = 0
  /\ at = [w \in Writers |-> "idle"] /\ value = [w \in Writers |-> 0]
  /\ fd = [w \in Writers |-> NoFile] /\ data = [i \in Inodes |-> 0]
  /\ path = NoFile /\ tmp = NoFile
  /\ saved = 0 /\ spoilt = FALSE

Goes(w, to) == at' = [at EXCEPT ![w] = to]
Done(w) == /\ Goes(w, "idle")
           /\ value' = [value EXCEPT ![w] = 0]
           /\ fd' = [fd EXCEPT ![w] = NoFile]

(***************************************************************************)
(* Resolve.                                                                *)
(***************************************************************************)
Expire(h) ==
  /\ fresh[h]
  /\ fresh' = [fresh EXCEPT ![h] = FALSE]
  /\ UNCHANGED <<token, issued, at, value, disk, saved, spoilt>>

\* A valid token is handed out at once, and changes nothing.
Resolve(r) ==
  /\ at[r] = "idle" /\ token[Holder(r)] # 0 /\ ~fresh[Holder(r)]
  /\ Goes(r, "asking")
  /\ value' = [value EXCEPT ![r] = token[Holder(r)]]
  /\ UNCHANGED <<memory, issued, disk, saved, spoilt>>

\* An answer without a refresh token leaves the one that was asked with.
KeepUnrotated(asked, answer) == IF answer = 0 THEN asked ELSE answer

RefreshOpenAI(r) ==
  /\ at[r] = "asking" /\ value[r] = issued
  /\ \/ UNCHANGED issued /\ value' = [value EXCEPT ![r] = KeepUnrotated(value[r], 0)]
     \/ /\ issued < MaxTokens
        /\ issued' = issued + 1
        /\ value' = [value EXCEPT ![r] = KeepUnrotated(value[r], issued')]
  /\ Goes(r, "answered")
  /\ UNCHANGED <<memory, disk, saved, spoilt>>

\* Refused, or unreachable; the answer may be lost after the token was rotated.
RefreshFails(r) ==
  /\ at[r] = "asking"
  /\ \/ UNCHANGED issued
     \/ value[r] = issued /\ issued < MaxTokens /\ issued' = issued + 1
  /\ Done(r)
  /\ UNCHANGED <<memory, data, path, tmp, saved, spoilt>>

SetOAuth(r) ==
  /\ at[r] = "answered"
  /\ token' = [token EXCEPT ![Holder(r)] = value[r]]
  /\ fresh' = [fresh EXCEPT ![Holder(r)] = TRUE]
  /\ Goes(r, "saving")
  /\ UNCHANGED <<issued, value, disk, saved, spoilt>>

(***************************************************************************)
(* The accounts screen.                                                    *)
(***************************************************************************)
saveOAuthResult ==
  /\ at[Screen] = "idle" /\ issued < MaxTokens
  /\ issued' = issued + 1
  /\ token' = [token EXCEPT !["screen"] = issued']
  /\ fresh' = [fresh EXCEPT !["screen"] = TRUE]
  /\ value' = [value EXCEPT ![Screen] = issued']
  /\ Goes(Screen, "saving")
  /\ UNCHANGED <<disk, saved, spoilt>>

DeleteOAuth ==
  /\ at[Screen] = "idle" /\ token["screen"] # 0
  /\ token' = [token EXCEPT !["screen"] = 0]
  /\ fresh' = [fresh EXCEPT !["screen"] = FALSE]
  /\ Goes(Screen, "saving")
  /\ UNCHANGED <<issued, value, disk, saved, spoilt>>

(***************************************************************************)
(* AtomicWrite: a sibling file, its bytes, the old file out of the way on  *)
(* every system, the new one in its place.  Any step may fail.             *)
(***************************************************************************)
Writing == {w \in Writers : at[w] \in {"written", "synced", "removed"}}

Free == {i \in Inodes : i \notin {path, tmp} \cup {fd[w] : w \in Writers}}
NewInode == CHOOSE i \in Free : \A j \in Free : i <= j

Open(w, i) ==
  /\ fd' = [fd EXCEPT ![w] = i]
  /\ data' = [data EXCEPT ![i] = Partial]

\* Slip: the file itself is truncated and written.
OpenInPlace(w) ==
  /\ Open(w, IF path = NoFile THEN NewInode ELSE path)
  /\ path' = fd'[w]
  /\ UNCHANGED tmp

\* O_CREATE and O_TRUNC on the one temporary name.
OpenTmp(w) ==
  /\ Open(w, IF tmp = NoFile THEN NewInode ELSE tmp)
  /\ tmp' = fd'[w]
  /\ UNCHANGED path

AtomicWrite(w) ==
  /\ at[w] = "saving"
  /\ OpenTmp(w)
  /\ Goes(w, "written")
  /\ spoilt' = (spoilt \/ Writing # {})
  /\ UNCHANGED <<memory, issued, value, saved>>

writeAndSync(w) ==
  /\ at[w] = "written"
  /\ data' = [data EXCEPT ![fd[w]] = value[w]]
  /\ Goes(w, "synced")
  /\ UNCHANGED <<memory, issued, value, path, tmp, fd, saved, spoilt>>

\* The disk is full: the temporary file goes, the old one stays.
WriteFails(w) ==
  /\ at[w] = "written"
  /\ tmp' = NoFile
  /\ Done(w)
  /\ UNCHANGED <<memory, issued, data, path, saved, spoilt>>

RemoveOld(w) ==
  /\ at[w] = "synced"
  /\ path' = NoFile
  /\ Goes(w, "removed")
  /\ UNCHANGED <<memory, issued, value, data, tmp, fd, saved, spoilt>>

\* Without the temporary file, another writer's rename took it: an error.
Rename(w) ==
  /\ at[w] = "removed"
  /\ IF tmp = NoFile
     THEN UNCHANGED <<path, tmp, saved>>
     ELSE path' = tmp /\ tmp' = NoFile /\ saved' = value[w]
  /\ Done(w)
  /\ UNCHANGED <<memory, issued, data, spoilt>>

(***************************************************************************)
(* The program dies and starts again: each part loads the file.  One that  *)
(* cannot be parsed gives no store, so no login.                           *)
(***************************************************************************)
Load == IF path = NoFile \/ data[path] = Partial THEN 0 ELSE data[path]

Restart ==
  /\ token' = [h \in Holders |-> Load] /\ fresh' = [h \in Holders |-> FALSE]
  /\ at' = [w \in Writers |-> "idle"] /\ value' = [w \in Writers |-> 0]
  /\ fd' = [w \in Writers |-> NoFile]
  /\ spoilt' = (spoilt \/ \E w \in Writers : at[w] = "removed")
  /\ UNCHANGED <<issued, data, path, tmp, saved>>

Next ==
  \/ \E h \in Holders : Expire(h)
  \/ \E r \in Requests : Resolve(r) \/ RefreshOpenAI(r) \/ RefreshFails(r) \/ SetOAuth(r)
  \/ saveOAuthResult \/ DeleteOAuth
  \/ \E w \in Writers : \/ AtomicWrite(w) \/ writeAndSync(w) \/ WriteFails(w)
                       \/ RemoveOld(w) \/ Rename(w)
  \/ Restart

Spec == Init /\ [][Next]_credVars

-----------------------------------------------------------------------------

\* What was saved last stays in the file, whole, through crashes and failed
\* writes, until the next save takes its place; two writers at once and a crash
\* in the window between remove and rename are excepted (AtomicWrite).
SavedStays ==
  ~spoilt /\ (\A w \in Writers : at[w] # "removed") =>
    IF path = NoFile THEN saved = 0 ELSE data[path] = saved
=============================================================================
