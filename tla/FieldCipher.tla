---------------------------- MODULE FieldCipher ----------------------------
(***************************************************************************)
(* The one encryption key of a database (app/security/crypto.py): a        *)
(* process does not use its key before it has opened the check container   *)
(* of the table `settings` with it; the first process after a deployment   *)
(* writes the container.  Files of keys differ between processes, and are  *)
(* replaced, by mistake or to mend one.                                    *)
(*                                                                         *)
(* A container is the key it is sealed with: AES-GCM opens it with that    *)
(* key and no other.  The binding to a row is the same for all.            *)
(***************************************************************************)
EXTENDS Naturals

CONSTANTS
    Processes,  \* api, node-api and worker processes
    CipherKeys, \* contents of key files
    NoKey       \* no container, no cipher

ASSUME CipherKeysAssumption == NoKey \notin CipherKeys

VARIABLES
    container,  \* settings.field_cipher_check
    keyFile,    \* the key file of each process
    checking,   \* the first use of the cipher in each process
    cipher,     \* the checked cipher each process remembers
    sealed      \* keys with which fields of the database are sealed

cipherVars == <<container, keyFile, checking, cipher, sealed>>

Checking == [at : {"none", "select", "insert", "reselect", "open"},
             key : CipherKeys \union {NoKey},
             stored : CipherKeys \union {NoKey}]

NotChecking == [at |-> "none", key |-> NoKey, stored |-> NoKey]

CipherTypeOK ==
    /\ container \in CipherKeys \union {NoKey}
    /\ keyFile \in [Processes -> CipherKeys]
    /\ checking \in [Processes -> Checking]
    /\ cipher \in [Processes -> CipherKeys \union {NoKey}]
    /\ sealed \in SUBSET CipherKeys

CipherInit ==
    /\ container = NoKey
    /\ keyFile \in [Processes -> CipherKeys]
    /\ checking = [p \in Processes |-> NotChecking]
    /\ cipher = [p \in Processes |-> NoKey]
    /\ sealed = {}

---------------------------------------------------------------------------
\* checked_cipher under its lock: the first call reads the key file, and so does
\* every call after a refusal.
BeginCheck(p) ==
    /\ cipher[p] = NoKey
    /\ checking[p].at = "none"
    /\ checking' = [checking EXCEPT ![p] =
           [at |-> "select", key |-> keyFile[p], stored |-> NoKey]]
    /\ UNCHANGED <<container, keyFile, cipher, sealed>>

SelectContainer(p) ==
    /\ checking[p].at = "select"
    /\ checking' = [checking EXCEPT
           ![p].at = IF container = NoKey THEN "insert" ELSE "open",
           ![p].stored = container]
    /\ UNCHANGED <<container, keyFile, cipher, sealed>>

\* Variant: the container of the last process stays.
InsertedLast(key) == key

\* ON CONFLICT DO NOTHING: the container of the first process stays.
Inserted(key) == IF container = NoKey THEN key ELSE container

InsertContainer(p) ==
    /\ checking[p].at = "insert"
    /\ container' = Inserted(checking[p].key)
    /\ checking' = [checking EXCEPT ![p].at = "reselect"]
    /\ UNCHANGED <<keyFile, cipher, sealed>>

\* What was inserted is read again: another process may have been the first.
SelectAgain(p) ==
    /\ checking[p].at = "reselect"
    /\ checking' = [checking EXCEPT ![p].at = "open", ![p].stored = container]
    /\ UNCHANGED <<container, keyFile, cipher, sealed>>

OpenContainer(p) ==
    /\ checking[p].at = "open"
    /\ checking[p].stored = checking[p].key
    /\ cipher' = [cipher EXCEPT ![p] = checking[p].key]
    /\ checking' = [checking EXCEPT ![p] = NotChecking]
    /\ UNCHANGED <<container, keyFile, sealed>>

\* CipherMismatch, or the connection of the check is lost: nothing is remembered.
CheckFails(p) ==
    /\ checking[p].at # "none"
    /\ checking[p].at = "open" => checking[p].stored # checking[p].key
    /\ checking' = [checking EXCEPT ![p] = NotChecking]
    /\ UNCHANGED <<container, keyFile, cipher, sealed>>

\* Credentials of a pair are sealed, long after the check and without another.
SealField(p) ==
    /\ cipher[p] # NoKey
    /\ sealed' = sealed \union {cipher[p]}
    /\ UNCHANGED <<container, keyFile, checking, cipher>>

ReplaceKeyFile(p) ==
    /\ \E key \in CipherKeys : keyFile' = [keyFile EXCEPT ![p] = key]
    /\ UNCHANGED <<container, checking, cipher, sealed>>

RestartProcess(p) ==
    /\ checking' = [checking EXCEPT ![p] = NotChecking]
    /\ cipher' = [cipher EXCEPT ![p] = NoKey]
    /\ UNCHANGED <<container, keyFile, sealed>>

CipherNext ==
    \E p \in Processes :
        \/ BeginCheck(p) \/ SelectContainer(p) \/ InsertContainer(p) \/ SelectAgain(p)
        \/ OpenContainer(p) \/ CheckFails(p) \/ SealField(p)
        \/ ReplaceKeyFile(p) \/ RestartProcess(p)

CipherSpec == CipherInit /\ [][CipherNext]_cipherVars

---------------------------------------------------------------------------
(* Property.                                                               *)

\* Processes that start together with different key files never seal fields with
\* different keys: whatever is sealed, and whatever a process may yet seal, is
\* sealed with the key of the check container.
OneKeyPerDatabase ==
    \A key \in sealed \union {cipher[p] : p \in Processes} :
        key # NoKey => key = container
=============================================================================
