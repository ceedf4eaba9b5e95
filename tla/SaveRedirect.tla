----------------------------- MODULE SaveRedirect -----------------------------
(***************************************************************************)
(* The save hooks of src/main.cpp: a user's saves go to a directory of the *)
(* SD card named after him.  The account service, the card and the game's  *)
(* own reading and writing are external and may fail, the writing also in  *)
(* the middle of a file.                                                   *)
(***************************************************************************)
EXTENDS Integers, Sequences, FiniteSets

CONSTANTS
    Users,
    NicknameOf(_),      \* a sequence of characters
    NameSize,           \* characters of a nickname that username has room for
    Disallowed,         \* disallowedChars: characters that the hook replaces
    CardForbids,        \* characters that the card has in no file name
    MaxSaves(_),        \* bound: saves of each user
    MaxFaults           \* bound: account, storage and power failures

Default == <<"default">>

\* The card takes what a disallowed character is replaced by, and "default".
\* Whether disallowedChars are all that it forbids is not assumed.
ASSUME NamesAssumption ==
    /\ {"_", "default"} \cap CardForbids = {}
    /\ NameSize \in Nat /\ \A u \in Users : NicknameOf(u) \in Seq(STRING)

NoName == <<>>

VARIABLES
    user,               \* the last opened user
    name,               \* username, of the hook that runs
    made,               \* directories on the card: 0..3 of smo, WuhuKingdom, save
    dirs,               \* and the directories of users in them
    files,              \* the file in each: user, number, and whether it is whole
    spc,                \* where the hook is
    got,                \* what the last read got
    saves, mine,        \* history: saves of each user, and what is left in his own directory
                        \* of the last of them that was begun there
    failed, faults      \* history: a storage call failed in this hook; failures so far

saveVars == <<user, name, made, dirs, files, spc, got, saves, mine, failed, faults>>

Nothing == [by |-> "nobody", number |-> 0, whole |-> TRUE]

\* strncpy: what username has room for.  That it then has no terminator, and that
\* what is longer than a FixedString is cut or aborts, is left out.
Cut(nickname) == SubSeq(nickname, 1, IF Len(nickname) < NameSize THEN Len(nickname) ELSE NameSize)

\* mutant: the last disallowed character only
SanitizedOnce(nickname) ==
    LET bad == {i \in DOMAIN nickname : nickname[i] \in Disallowed}
    IN  [i \in DOMAIN nickname |->
            IF i \in bad /\ \A j \in bad : j <= i THEN "_" ELSE nickname[i]]

Sanitized(nickname) ==
    [i \in DOMAIN nickname |-> IF nickname[i] \in Disallowed THEN "_" ELSE nickname[i]]

DirectoryOf(u) == Sanitized(Cut(NicknameOf(u)))
Usernames == {DirectoryOf(u) : u \in Users} \cup {Default}

SaveInit ==
    /\ user \in Users /\ name = NoName
    /\ made = 0 /\ dirs = {} /\ files = [n \in Usernames |-> Nothing]
    /\ spc = "idle" /\ got = Nothing
    /\ saves = [u \in Users |-> 0] /\ mine = [u \in Users |-> Nothing]
    /\ failed = FALSE /\ faults = 0

\* It works, or it fails for a reason of its own.
Succeeds(works) == works /\ UNCHANGED <<faults, failed>>
Fault == faults < MaxFaults /\ faults' = faults + 1

\* getUsername; a service that fails makes the user "default".
getUsername ==
    \/ name' = DirectoryOf(user) /\ UNCHANGED faults
    \/ name' = Default /\ Fault

-----------------------------------------------------------------------------
saveWriteHook ==
    /\ spc = "idle" /\ saves[user] < MaxSaves(user)
    /\ getUsername
    /\ saves' = [saves EXCEPT ![user] = @ + 1]
    /\ failed' = FALSE
    /\ spc' = "check"
    /\ UNCHANGED <<user, made, dirs, files, got, mine>>

\* GetEntryType of the user's directory.
DirectoryKnown ==
    /\ spc = "check" /\ name \in dirs
    /\ spc' = "write"
    /\ UNCHANGED <<user, name, made, dirs, files, got, saves, mine, failed, faults>>

\* It is not there, or the call fails.
DirectoryUnknown ==
    /\ spc = "check"
    /\ \/ Succeeds(name \notin dirs)
       \/ Fault /\ UNCHANGED failed
    /\ spc' = "create1"
    /\ UNCHANGED <<user, name, made, dirs, files, got, saves, mine>>

\* The i-th directory that CreateDirectory is called for; results are dropped.
CreateFrom == <<"create1", "create2", "create3", "create4">>
Creating(i) == spc = CreateFrom[i] /\ spc' = IF i = 4 THEN "write" ELSE CreateFrom[i + 1]

\* External: a directory is created in one that is there, by a name it may have.
Allowed(n) == \A i \in DOMAIN n : n[i] \notin CardForbids

CreateDirectory ==
    /\ \E i \in 1..4 :
        /\ Creating(i)
        /\ made' = IF i <= 3 /\ made = i - 1 THEN i ELSE made
        /\ dirs' = IF i = 4 /\ made = 3 /\ Allowed(name) THEN dirs \cup {name} ELSE dirs
    /\ UNCHANGED <<user, name, files, got, saves, mine, failed, faults>>

CreateFails ==
    /\ \E i \in 1..4 : Creating(i)
    /\ Fault /\ failed' = TRUE
    /\ UNCHANGED <<user, name, made, dirs, files, got, saves, mine>>

\* The game's SaveDataSequenceWrite::write, with the new device and path.  The file
\* is on the card from its first byte on, in the place of the one before it, and
\* whole with its last; a failure or the end of power in between leaves it torn.
Save(whole) == [by |-> user, number |-> saves[user], whole |-> whole]

Puts(save) ==
    /\ files' = [files EXCEPT ![name] = save]
    /\ mine' = IF name = Default THEN mine ELSE [mine EXCEPT ![user] = save]

WriteSave ==
    /\ \/ /\ spc = "write" /\ Succeeds(name \in dirs)
          /\ Puts(Save(FALSE))
          /\ spc' = "writing"
       \/ /\ spc = "writing" /\ Succeeds(TRUE)
          /\ Puts(Save(TRUE))
          /\ spc' = "written"
       \/ /\ spc = "write" /\ name \notin dirs
          /\ spc' = "lost"
          /\ UNCHANGED <<files, mine, failed, faults>>
       \/ /\ spc \in {"write", "writing"} /\ Fault /\ failed' = TRUE
          /\ spc' = "lost"
          /\ UNCHANGED <<files, mine>>
    /\ UNCHANGED <<user, name, made, dirs, got, saves>>

-----------------------------------------------------------------------------
\* saveReadHook, with the game's SaveDataSequenceRead::read.
ReadOfDefault ==                    \* mutant: the directory that the card had first
    /\ spc = "idle"
    /\ getUsername
    /\ got' = IF Default \in dirs THEN files[Default] ELSE files[name']
    /\ spc' = "read"
    /\ UNCHANGED <<user, made, dirs, files, saves, mine, failed>>

saveReadHook ==
    /\ spc = "idle"
    /\ getUsername
    /\ got' = files[name']
    /\ spc' = "read"
    /\ UNCHANGED <<user, made, dirs, files, saves, mine, failed>>

-----------------------------------------------------------------------------
HookReturns ==
    /\ spc \in {"written", "lost", "read"}
    /\ spc' = "idle" /\ name' = NoName /\ got' = Nothing /\ failed' = FALSE
    /\ UNCHANGED <<user, made, dirs, files, saves, mine, faults>>

\* The console.
OpenUser ==
    /\ spc = "idle"
    /\ user' \in Users \ {user}
    /\ UNCHANGED <<name, made, dirs, files, spc, got, saves, mine, failed, faults>>

PowerOff ==
    /\ spc # "idle" /\ Fault
    /\ spc' = "idle" /\ name' = NoName /\ got' = Nothing /\ failed' = FALSE
    /\ UNCHANGED <<user, made, dirs, files, saves, mine>>

SaveNext ==
    \/ saveWriteHook \/ DirectoryKnown \/ DirectoryUnknown \/ CreateDirectory \/ CreateFails
    \/ WriteSave \/ saveReadHook \/ HookReturns \/ OpenUser \/ PowerOff

-----------------------------------------------------------------------------
\* Properties.

OwnDirectory(u) ==
    /\ name = DirectoryOf(u) /\ name # Default
    /\ \A v \in Users \ {u} : DirectoryOf(v) # name

\* A user whose directory is his alone reads what the last of his own saves that
\* was begun there left: that save, whole, or torn if that very write failed or
\* was cut by the end of power; whatever was saved for others and under "default"
\* in between (saveReadHook, saveWriteHook).
ReadsOwnSave == (spc = "read" /\ OwnDirectory(user)) => got = mine[user]

\* A character of u's nickname that the card forbids and the hook's list lacks.
Overlooked(u) == \E i \in DOMAIN Cut(NicknameOf(u)) : Cut(NicknameOf(u))[i] \in CardForbids \ Disallowed

\* A save is lost only when a storage call fails in that very hook, or when the
\* card forbids a character of the nickname that disallowedChars lacks: neither
\* an empty card, nor directories that an earlier hook left half made, nor any
\* other nickname loses one.
SaveReachesCard == spc = "lost" => failed \/ (name # Default /\ Overlooked(user))
=============================================================================
