----------------------------- MODULE ObjectKeys -----------------------------
(***************************************************************************)
(* The S3 keys of s3.key-builder.ts and the ownership check that reads     *)
(* them back.  A text is a sequence of characters; the fixed word          *)
(* "original" counts as one of them, which the date's digits do as well.   *)
(***************************************************************************)
EXTENDS Integers, Sequences

CONSTANTS Char, Slash, Dot, Original

ASSUME CharAssumption == {Slash, Dot, Original} \subseteq Char /\ Slash # Dot

MaxKeyLength == 255
MinFilenameLength == 8

Text == Seq(Char)

(* A canonical user id: not empty, and of one path segment.                *)
UserId == {id \in Text : id # <<>> /\ \A i \in 1..Len(id) : id[i] # Slash}

StartsWith(key, prefix) ==
    /\ Len(prefix) <= Len(key)
    /\ \A i \in 1..Len(prefix) : key[i] = prefix[i]

(* The brand's prefix, '' or terminated by a slash.                        *)
Terminated(s3Prefix) ==
    IF s3Prefix = <<>> \/ s3Prefix[Len(s3Prefix)] = Slash
    THEN s3Prefix ELSE Append(s3Prefix, Slash)

KeyPrefixUnterminated(s3Prefix, id) ==
    Terminated(s3Prefix) \o <<Original, Slash>> \o id

(* buildUserKeyPrefix: the folder of one user.                             *)
UserKeyPrefix(s3Prefix, id) ==
    Terminated(s3Prefix) \o <<Original, Slash>> \o id \o <<Slash>>

(* sendIfKeyNotOwned: the key a client names is in the user's folder.      *)
KeyOwnedUnterminated(s3Prefix, id, key) ==
    StartsWith(key, KeyPrefixUnterminated(s3Prefix, id))

KeyOwned(s3Prefix, id, key) == StartsWith(key, UserKeyPrefix(s3Prefix, id))

IsLastDot(name, d) == name[d] = Dot /\ \A j \in (d + 1)..Len(name) : name[j] # Dot

(* clampFilenameToBudget: a name of at most budget characters, with its    *)
(* extension when it has a usable one (neither first nor last character)   *)
(* that leaves room for something before it.                               *)
Extensions(name, budget) ==
    {d \in 2..(Len(name) - 1) : IsLastDot(name, d) /\ Len(name) - d + 1 < budget}

Clamped(name, budget) ==
    IF Len(name) <= budget THEN name
    ELSE IF Extensions(name, budget) = {} THEN SubSeq(name, 1, budget)
    ELSE LET d == CHOOSE d \in Extensions(name, budget) : TRUE
         IN  SubSeq(name, 1, budget - (Len(name) - d + 1)) \o SubSeq(name, d, Len(name))

(* buildS3Key: the folder, the date and time, the clamped name.            *)
NameBudget(fixed) ==
    IF MaxKeyLength - fixed > MinFilenameLength
    THEN MaxKeyLength - fixed ELSE MinFilenameLength

BuiltKey(s3Prefix, id, date, name) ==
    LET fixed == UserKeyPrefix(s3Prefix, id) \o date
    IN  fixed \o Clamped(name, NameBudget(Len(fixed)))
=============================================================================
