-------------------------------- MODULE Blobs --------------------------------
(***************************************************************************)
(* Files in a directory (platform/blob: FS): the bytes of a key in one      *)
(* file, its type in another, each replaced by renaming a temporary one;    *)
(* the two together are not atomic.  A key that is a prefix of another is a *)
(* directory on the disk.  A file is the number of the Put that wrote it.   *)
(***************************************************************************)
EXTENDS EdgeClock, Sequences, FiniteSets

VARIABLES
  bytes, \* data/<key>: the Put that wrote it, 0 if there is none
  types, \* meta/<key>.json: the type, or ""
  inner, \* data/f is a directory
  io,   \* io[c]: the call of client c
  puts,  \* puts[n]: what the n-th Put is to write
  apart  \* keys whose two files may have come apart
blobs == <<bytes, types, inner, io, puts, apart>>

Outer == "f"
Inner == "f/g"
Keys  == {Outer, Inner}
Types == {"png", "webp"}
Calm  == [op |-> "none", pc |-> "idle", key |-> Outer, n |-> 0, alone |-> FALSE]
Writers == {"put", "delete"}

BlobsTypeOK ==
  /\ bytes \in [Keys -> 0..Len(puts)] /\ types \in [Keys -> Types \cup {""}]
  /\ inner \in BOOLEAN /\ puts \in Seq([key : Keys, type : Types])
  /\ io \in [Clients -> [op : Writers \cup {"get", "none"}, pc : {"idle", "bytes", "type"}, key : Keys,
                       n : 0..Len(puts), alone : BOOLEAN]]
  /\ apart \subseteq Keys

BlobsInit ==
  /\ bytes = [k \in Keys |-> 0] /\ types = [k \in Keys |-> ""] /\ inner = FALSE
  /\ io = [c \in Clients |-> Calm] /\ puts = <<>> /\ apart = {}

(* The writers of a key at work; two at once may mix its files.             *)
AtWork(k) == {d \in Clients : io[d].op \in Writers /\ io[d].key = k}
Begins(c, op, k, n) ==
  /\ Arrival("blobs") /\ io[c] = Calm
  /\ io' = [d \in Clients |->
       IF d = c THEN [op |-> op, pc |-> "bytes", key |-> k, n |-> n, alone |-> AtWork(k) = {}]
       ELSE IF op \in Writers /\ d \in AtWork(k) THEN [io[d] EXCEPT !.alone = FALSE] ELSE io[d]]
  /\ apart' = IF op \in Writers /\ AtWork(k) # {} THEN apart \cup {k} ELSE apart
  /\ UNCHANGED <<bytes, types, inner>>

PutFile(c, k, type) == Begins(c, "put", k, Len(puts) + 1) /\ puts' = Append(puts, [key |-> k, type |-> type])
GetFile(c, k)    == Begins(c, "get", k, 0) /\ UNCHANGED puts
DeleteFile(c, k) == Begins(c, "delete", k, 0) /\ UNCHANGED puts

Stands(c, op, pc) == io[c].op = op /\ io[c].pc = pc
Moves(c) == io' = [io EXCEPT ![c].pc = "type"]
Finishes(c) == io' = [io EXCEPT ![c] = Calm]
(* A writer that was alone leaves the two files together.                  *)
Settles(c) == apart' = IF io[c].alone THEN apart \ {io[c].key} ELSE apart

-----------------------------------------------------------------------------
(* writeAtomic of the bytes: the directory of f/g is made first, where f    *)
(* itself must not be a file; a file is not renamed over a directory.       *)
Reached(k) == k = Inner => bytes[Outer] = 0
Blocked(k) == ~Reached(k) \/ (k = Outer /\ inner)
WriteBytes(c) ==
  LET k == io[c].key IN
  /\ Stands(c, "put", "bytes") /\ ~Blocked(k)
  /\ bytes' = [bytes EXCEPT ![k] = io[c].n] /\ inner' = (inner \/ k = Inner)
  /\ Moves(c) /\ UNCHANGED <<clock, types, puts, apart>>
WriteType(c) ==
  /\ Stands(c, "put", "type")
  /\ types' = [types EXCEPT ![io[c].key] = puts[io[c].n].type]
  /\ Settles(c) /\ Finishes(c) /\ UNCHANGED <<clock, bytes, inner, puts>>

(* An error, before or after the directory was made: what was there stays.  *)
PutFails(c) ==
  /\ io[c].op = "put" /\ Finishes(c)
  /\ inner' \in {inner, inner \/ (io[c].key = Inner /\ Reached(Inner))}
  /\ apart' = IF io[c].pc = "type" THEN apart \cup {io[c].key} ELSE apart
  /\ UNCHANGED <<clock, bytes, types, puts>>

(* Get: the file that is open stays as it is; without a type it is told     *)
(* without one.  Under a key that is a file the answer is an error.        *)
NotFound(c) == Stands(c, "get", "bytes") /\ bytes[io[c].key] = 0 /\ Finishes(c)
               /\ UNCHANGED <<clock, bytes, types, inner, puts, apart>>
Open(c) ==
  /\ Stands(c, "get", "bytes") /\ bytes[io[c].key] # 0
  /\ io' = [io EXCEPT ![c].pc = "type", ![c].n = bytes[io[c].key]]
  /\ UNCHANGED <<clock, bytes, types, inner, puts, apart>>
ReadType(c) == Stands(c, "get", "type") /\ Finishes(c) /\ UNCHANGED <<clock, bytes, types, inner, puts, apart>>

(* Delete: what is not there, or is a directory, is no error; a file where  *)
(* the directory of the key should be is one.                              *)
RemoveBytes(c) ==
  /\ Stands(c, "delete", "bytes") /\ Reached(io[c].key)
  /\ bytes' = [bytes EXCEPT ![io[c].key] = 0] /\ Moves(c)
  /\ UNCHANGED <<clock, types, inner, puts, apart>>
RemoveTypeIfFound(c) ==
  /\ Stands(c, "delete", "type") /\ Settles(c) /\ Finishes(c)
  /\ UNCHANGED <<clock, bytes, types, inner, puts>>
RemoveType(c) ==
  /\ Stands(c, "delete", "type") /\ types' = [types EXCEPT ![io[c].key] = ""]
  /\ Settles(c) /\ Finishes(c) /\ UNCHANGED <<clock, bytes, inner, puts>>
DeleteFails(c) ==
  /\ io[c].op = "delete" /\ Finishes(c)
  /\ apart' = IF io[c].pc = "type" THEN apart \cup {io[c].key} ELSE apart
  /\ UNCHANGED <<clock, bytes, types, inner, puts>>

(* The process dies; temporary files are no keys.                          *)
ProcessDies ==
  /\ \E c \in Clients : io[c].op \in Writers
  /\ io' = [c \in Clients |-> Calm]
  /\ apart' = apart \cup {io[c].key : c \in {d \in Clients : io[d].op \in Writers /\ io[d].pc = "type"}}
  /\ UNCHANGED <<clock, bytes, types, inner, puts>>

BlobsNext ==
  \/ \E c \in Clients, k \in Keys : (\E t \in Types : PutFile(c, k, t)) \/ GetFile(c, k) \/ DeleteFile(c, k)
  \/ \E c \in Clients : WriteBytes(c) \/ WriteType(c) \/ PutFails(c) \/ NotFound(c) \/ Open(c) \/ ReadType(c)
                        \/ RemoveBytes(c) \/ RemoveType(c) \/ DeleteFails(c)
  \/ ProcessDies

-----------------------------------------------------------------------------
(* A file has the type it was put with, and a deleted one leaves none       *)
(* behind, whatever failed or died before, as soon as one Put or Delete of  *)
(* the key has run to its end alone and until the next one begins; so that  *)
(* is what Get tells meanwhile.  A file and a directory share no name.      *)
FilesWhole ==
  /\ \A k \in Keys : /\ bytes[k] # 0 => puts[bytes[k]].key = k
                     /\ k \notin apart /\ AtWork(k) = {} => types[k] = IF bytes[k] = 0 THEN "" ELSE puts[bytes[k]].type
  /\ inner => bytes[Outer] = 0
==============================================================================
