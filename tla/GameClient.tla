------------------------------ MODULE GameClient ------------------------------
(***************************************************************************)
(* The client: the game loop (Game.cpp, SysManger), the terminal thread    *)
(* (IOManger) and what they share: the flag talking and the output queue   *)
(* under data_mutex, the terminal itself, the player with its friends and  *)
(* its file (Player), the queues of SeqToBin and the list of requests.     *)
(* The receiver and the sender thread fill and empty two of the queues;    *)
(* what the server sends is up to the world.                               *)
(*                                                                         *)
(* The game loop is a sequence of steps, and waits in three of them for    *)
(* data_mutex.  The terminal thread holds the mutex while it reads a word  *)
(* and while it saves a friend.  Text is left out, except that an output   *)
(* knows which received object it is about.                                *)
(*                                                                         *)
(* Every look for a key opens /dev/tty once more and closes nothing; when  *)
(* no descriptor is left an assert ends the client.  How many there are is *)
(* not known: the first MaxTtys opens succeed, and of the ones after them  *)
(* any may be the one that fails.  The player file is assumed to fit in    *)
(* the buffer of its stream, so that all of it is written, or fails to be, *)
(* when it is closed.                                                      *)
(*                                                                         *)
(* A definition marked faulty is a plausible error in the one after it; no *)
(* action uses it.                                                         *)
(***************************************************************************)
EXTENDS Integers, Sequences, FiniteSets

CONSTANTS
    Names,          \* what players are called
    Ids,            \* ids the server gives
    Commands,       \* what a word may say, a subset of AllCommands
    Keys,           \* keys that may be found, a subset of AllKeys
    NoId,           \* data.id before the server or the file gave one
    NoName, None,
    Empty,          \* the player file without contents
    Torn,           \* the player file with a part of its contents
    MaxFriends,     \* MAX_FRIENDS_NUM
    MaxTtys,        \* descriptors that are there for /dev/tty, at least
    MaxKeys,        \* bound: keys found by scanKeyBoard
    MaxWords,       \* bound: words of one line
    MaxIndex,       \* bound: numbers of requests that are typed
    MaxObjs,        \* bound: objects received
    MaxRestarts     \* bound: restarts of the client

\* Words, by what getMsgFromInput does with them: what it sends at once, what
\* it sends when logged in, and the commands that show or accept something.
Anyone == [login |-> "LOGIN", regin |-> "REG"]
Members == [logout |-> "LOGOUT", add |-> "ASK", chose |-> "ASK", talk |-> "TALK"]
Shows == [showFriends |-> "FRIENDS", showRequests |-> "REQUESTS"]
AllCommands == DOMAIN Anyone \cup DOMAIN Members \cup DOMAIN Shows
                 \cup {"accept", "me", "unknown"}

\* The key that turns to talk, one of the other system keys, one of the
\* actor's keys.
AllKeys == {"enter", "map", "move"}

PlayerData == [id : Ids \cup {NoId}, friends : [Names -> Ids \cup {-1, None}]]

ASSUME ClientAssumption ==
    /\ IsFiniteSet(Names) /\ NoName \notin Names
    /\ Ids \subseteq Nat /\ NoId \notin Ids \cup {-1}
    /\ None \notin Ids \cup {-1, NoId} /\ None # "terminal"
    /\ Empty \notin PlayerData \cup {Torn} /\ Torn \notin PlayerData
    /\ Commands \subseteq AllCommands /\ Keys \subseteq AllKeys
    /\ MaxFriends \in Nat /\ MaxTtys \in Nat
    /\ MaxKeys \in Nat /\ MaxWords \in Nat /\ MaxIndex \in Nat
    /\ MaxObjs \in Nat /\ MaxRestarts \in Nat

VARIABLES
    game,       \* the step the game loop is at; "ended" with the client
    term,       \* the step the terminal thread is at; "ended" with the client
    lock,       \* owner of data_mutex; only the terminal keeps it over steps
    talking,    \* IOManger::talking
    outputMsg,  \* IOManger::outputMsg
    sysCmdQue,  \* ReadKey::sysCmdQue
    sysBuff,    \* SeqToBin::sysBuff
    rcvBuff,    \* SeqToBin::rcvBuff
    ttys,       \* descriptors of /dev/tty the client opened, up to MaxTtys
    buff,       \* SeqToBin::buff, the types of the objects to send
    ahead,      \* words typed and not yet read
    cur,        \* the object or message the game loop works on
    reqBuff,    \* SysManger::reqBuff, the names in the requests
    logined,    \* Player::logined
    player,     \* Player::data.id and Player::friends
    disk,       \* PLAYER_DATA_FILE
    raced,      \* history: both threads were at the player's data at once
    unsaved,    \* history: the file could not be opened or written, or was
                \* emptied and the client ended
    saved,      \* history: friends that were in the file at some time
    pending,    \* history: objects received and not yet shown
    keys, objs, restarts

ui     == <<game, term, lock, talking, outputMsg, sysCmdQue, ahead, ttys>>
queues == <<sysBuff, rcvBuff, buff>>
data   == <<reqBuff, logined, player, disk>>
past   == <<raced, unsaved, saved, pending>>
counts == <<keys, objs, restarts>>
vars   == <<ui, queues, cur, data, past, counts>>
-----------------------------------------------------------------------------
Friends(p) == {n \in Names : p.friends[n] # None}
NoData == [id |-> NoId, friends |-> [n \in Names |-> None]]

Msg(type, about) == [type |-> type, about |-> about]
Obj(type, id, name, about) == [type |-> type, id |-> id, name |-> name, about |-> about]
NoCur == Obj("none", -1, NoName, 0)

\* What the server sends: a sentence (a refusal, a message), the answers to a
\* registration and a login, a friend request (which carries the id -1 its
\* client filled in) and its acceptance, the name of
\* which may be too long; of that one nothing is shown.
Received(k) ==
    {Obj("TEXT", -1, NoName, k)}
      \cup {Obj(type, i, NoName, k) : type \in {"REG_ACCEPT", "LOGIN_ACCEPT"}, i \in Ids}
      \cup {Obj("ASK", -1, n, k) : n \in Names}
      \cup {Obj("ACC", i, n, k) : i \in Ids, n \in Names}
      \cup {Obj("ACC", i, NoName, 0) : i \in Ids}

\* reqBuff is filled at its end and nothing is ever erased: an index once found
\* stays one, although it is looked up and used in two locked calls.  Requests
\* are counted from 1 here.
PushBackReq(name) == reqBuff' = Append(reqBuff, name)
ContainsReqIdx(index) == index \in DOMAIN reqBuff

Saving == {"open", "write"}

Init ==
    /\ game = "sysMsg" /\ term = "run" /\ lock = None /\ talking = FALSE
    /\ outputMsg = <<>> /\ sysCmdQue = <<>> /\ ahead = <<>> /\ ttys = 0
    /\ sysBuff = <<>> /\ rcvBuff = <<>> /\ buff = <<>>
    /\ cur = NoCur
    /\ reqBuff = <<>> /\ logined = FALSE /\ player = NoData /\ disk = Empty
    /\ raced = FALSE /\ unsaved = FALSE /\ saved = {} /\ pending = {}
    /\ keys = 0 /\ objs = 0 /\ restarts = 0
-----------------------------------------------------------------------------
(***************************************************************************)
(* The player.                                                             *)
(***************************************************************************)
HasPlace == Cardinality(Friends(player)) < MaxFriends
SetFriend(n, id) == player' = [player EXCEPT !.friends[n] = id]

AddUnsaved(n) == FALSE          \* faulty: no friend is worth saving
IsNew(n) == n \notin Friends(player)

\* savePlayerData opens the file, which empties it, and writes the player.
\* Whether the write succeeds is not looked at.
OpenFile == disk' = Empty
WriteFile ==
    \/ /\ disk' = player
       /\ saved' = saved \cup Friends(player)
       /\ UNCHANGED unsaved
    \/ /\ disk' \in {Empty, Torn}
       /\ unsaved' = TRUE
       /\ UNCHANGED saved

LoadUnchecked(file) == file     \* faulty: an empty file is read as a player

\* loadPlayerData leaves the new player alone when the file is empty
\* (of a torn file nothing is used, see LoadThrows).
Loaded(file) == IF file \in {Empty, Torn} THEN NoData ELSE file

\* The archive throws when the file ends early, and nobody catches it.
LoadThrows(file) == file = Torn

\* Both threads at the player's data at once: a data race, which the model
\* only records.
RaceWith(other) == raced' = (raced \/ other \in Saving)
-----------------------------------------------------------------------------
(***************************************************************************)
(* The terminal thread.                                                    *)
(***************************************************************************)
Woken == IF term = "asleep" THEN "run" ELSE term

NobodyWoken == term             \* faulty: no notify_one
NotifyTerminal == Woken

\* run: take the mutex and look; with nothing to do, wait.
Rest ==
    /\ term = "run" /\ lock = None
    /\ ~ talking /\ outputMsg = <<>>
    /\ term' = "asleep"
    /\ UNCHANGED <<game, lock, talking, outputMsg, sysCmdQue, ahead, ttys,
                   queues, cur, data, past, counts>>

\* handleOutputMsg
HandleOutputMsg ==
    /\ term = "run" /\ lock = None
    /\ ~ talking /\ outputMsg # <<>>
    /\ outputMsg' = Tail(outputMsg)
    /\ pending' = pending \ {Head(outputMsg)}
    /\ UNCHANGED <<game, term, lock, talking, sysCmdQue, ahead, ttys,
                   queues, cur, data, raced, unsaved, saved, counts>>

\* handleTalk, up to the reading of a word: the mutex is kept.
HandleTalk ==
    /\ term = "run" /\ lock = None
    /\ talking
    /\ lock' = "terminal"
    /\ term' = "reading"
    /\ UNCHANGED <<game, talking, outputMsg, sysCmdQue, ahead, ttys,
                   queues, cur, data, past, counts>>

\* The player types a line; cin takes one word of it at a time.
Type(line) ==
    /\ term = "reading" /\ ahead = <<>>
    /\ ahead' = line
    /\ UNCHANGED <<game, term, lock, talking, outputMsg, sysCmdQue, ttys,
                   queues, cur, data, past, counts>>

\* Faulty: the flag stays set.
KeepTalking == UNCHANGED talking /\ lock' = None /\ term' = "run"

\* The end of handleTalk.
EndTalk ==
    /\ talking' = FALSE
    /\ lock' = None
    /\ term' = "run"

AnybodyFirst == TRUE            \* faulty: no check
LoggedInFirst == logined

\* tryLoginFirst: whoever is not logged in is told so.
Refuse == sysBuff' = Append(sysBuff, Msg("OUTPUT", 0)) /\ UNCHANGED buff

Push(type) == buff' = Append(buff, type) /\ UNCHANGED sysBuff
Show(type) == sysBuff' = Append(sysBuff, Msg(type, 0)) /\ UNCHANGED buff

\* handleInputOf...: one word, except the acceptance of a known request.
Say(w) ==
    \/ w.cmd \in DOMAIN Anyone /\ Push(Anyone[w.cmd])
    \/ w.cmd \in DOMAIN Members /\ LoggedInFirst /\ Push(Members[w.cmd])
    \/ w.cmd \in DOMAIN Shows /\ LoggedInFirst /\ Show(Shows[w.cmd])
    \/ w.cmd \in DOMAIN Members \cup DOMAIN Shows \cup {"accept"} /\ ~ LoggedInFirst /\ Refuse
    \/ w.cmd = "accept" /\ LoggedInFirst /\ ~ ContainsReqIdx(w.index) /\ Show("OUTPUT")
    \/ w.cmd = "me" /\ Show("OUTPUT")
    \/ w.cmd = "unknown" /\ UNCHANGED <<sysBuff, buff>>

SayWord ==
    /\ term = "reading" /\ ahead # <<>>
    /\ ahead' = Tail(ahead)
    /\ Say(Head(ahead))
    /\ EndTalk
    /\ UNCHANGED <<game, outputMsg, sysCmdQue, ttys, rcvBuff, cur, data, past, counts>>

\* handleInputOfAccRequest and addFriend: a new friend is saved before the
\* acceptance is sent; a known one gets the new id, and nothing is saved.
AcceptRequest ==
    /\ term = "reading" /\ ahead # <<>>
    /\ Head(ahead).cmd = "accept" /\ LoggedInFirst
    /\ ContainsReqIdx(Head(ahead).index)
    /\ ahead' = Tail(ahead)
    /\ sysBuff' = Append(sysBuff, Msg("OUTPUT", 0))
    /\ LET n == reqBuff[Head(ahead).index]
       IN  \/ ~ HasPlace /\ UNCHANGED player /\ EndTalk /\ buff' = Append(buff, "ACC")
           \/ /\ HasPlace /\ ~ IsNew(n)
              /\ SetFriend(n, -1) /\ EndTalk /\ buff' = Append(buff, "ACC")
           \/ /\ HasPlace /\ IsNew(n)
              /\ SetFriend(n, -1) /\ term' = "open" /\ UNCHANGED <<talking, lock, buff>>
    /\ RaceWith(game)
    /\ UNCHANGED <<game, outputMsg, sysCmdQue, ttys, rcvBuff, cur, reqBuff, logined, disk,
                   unsaved, saved, pending, counts>>

\* savePlayerData on the terminal thread, then the push of the acceptance,
\* whether it could be saved or not.
TerminalOpens ==
    /\ term = "open"
    /\ \/ OpenFile /\ term' = "write" /\ UNCHANGED <<lock, talking, buff, unsaved>>
       \/ UNCHANGED disk /\ unsaved' = TRUE /\ EndTalk /\ buff' = Append(buff, "ACC")
    /\ RaceWith(game)
    /\ UNCHANGED <<game, outputMsg, sysCmdQue, ahead, ttys, sysBuff, rcvBuff, cur, reqBuff,
                   logined, player, saved, pending, counts>>

TerminalWrites ==
    /\ term = "write"
    /\ WriteFile
    /\ EndTalk
    /\ buff' = Append(buff, "ACC")
    /\ RaceWith(game)
    /\ UNCHANGED <<game, outputMsg, sysCmdQue, ahead, ttys, sysBuff, rcvBuff, cur, reqBuff,
                   logined, player, pending, counts>>

SpuriousWakeup ==
    /\ term = "asleep"
    /\ term' = "run"
    /\ UNCHANGED <<game, lock, talking, outputMsg, sysCmdQue, ahead, ttys,
                   queues, cur, data, past, counts>>
-----------------------------------------------------------------------------
(***************************************************************************)
(* The game loop: a frame is handleSysMsg, handleRecvMsg, handleSysInput   *)
(* and scanKeyBoard.  (Actor::update prints the key and has no state.)     *)
(***************************************************************************)
HandleSysMsg ==
    /\ game = "sysMsg"
    /\ \/ sysBuff = <<>> /\ game' = "recv" /\ UNCHANGED <<sysBuff, cur, raced>>
       \/ /\ sysBuff # <<>>
          /\ sysBuff' = Tail(sysBuff)
          /\ cur' = [NoCur EXCEPT !.about = Head(sysBuff).about]
          /\ IF Head(sysBuff).type = "FRIENDS" THEN RaceWith(term) ELSE UNCHANGED raced
          /\ game' = "put"
    /\ UNCHANGED <<term, lock, talking, outputMsg, sysCmdQue, ahead, ttys, rcvBuff, buff, data,
                   unsaved, saved, pending, counts>>

\* putOutputMsg waits for the mutex.
PutOutputMsg ==
    /\ game = "put" /\ lock = None
    /\ outputMsg' = Append(outputMsg, cur.about)
    /\ term' = NotifyTerminal
    /\ cur' = NoCur
    /\ game' = "recv"
    /\ UNCHANGED <<lock, talking, sysCmdQue, ahead, ttys, queues, data, past, counts>>

\* handleRecvMsg: one object a frame, by its handler.
Tell(k) == sysBuff' = Append(sysBuff, Msg("OUTPUT", k))
Handled == game' = "sysInput" /\ UNCHANGED cur
Continue(o, step) == game' = step /\ cur' = o

\* A sentence: handleUserSendMsg, handleUserRegRefusedMsg and their like.
HandleText(o) ==
    /\ o.type = "TEXT"
    /\ Tell(o.about)
    /\ Handled
    /\ UNCHANGED <<reqBuff, logined, player, raced>>

HandleUserRegAccepted(o) ==
    /\ o.type = "REG_ACCEPT"
    /\ player' = [player EXCEPT !.id = o.id]
    /\ Tell(o.about)
    /\ Handled
    /\ RaceWith(term)
    /\ UNCHANGED <<reqBuff, logined>>

\* setPlayerLogin sets logined before the id.
HandleUserLogAccepted(o) ==
    /\ o.type = "LOGIN_ACCEPT"
    /\ logined' = TRUE
    /\ Continue(o, "login")
    /\ UNCHANGED <<sysBuff, reqBuff, player, raced>>

HandleAskForFriend(o) ==
    /\ o.type = "ASK"
    /\ PushBackReq(o.name)
    /\ Tell(o.about)
    /\ Handled
    /\ UNCHANGED <<logined, player, raced>>

\* A name that is too long is only logged.  addFriend: no place, a known friend
\* (who gets the new id, and nothing is saved), or a new one.
HandleAskForFriendTooLong(o) ==
    /\ o.type = "ACC" /\ o.name = NoName
    /\ Handled
    /\ UNCHANGED <<sysBuff, reqBuff, logined, player, raced>>

HandleAskForFriendAccept(o) ==
    /\ o.type = "ACC" /\ o.name # NoName
    /\ \/ ~ HasPlace /\ Handled /\ UNCHANGED <<player, sysBuff>>
       \/ /\ HasPlace /\ ~ IsNew(o.name)
          /\ SetFriend(o.name, o.id) /\ Tell(o.about) /\ Handled
       \/ /\ HasPlace /\ IsNew(o.name)
          /\ SetFriend(o.name, o.id) /\ Continue(o, "open") /\ UNCHANGED sysBuff
    /\ RaceWith(term)
    /\ UNCHANGED <<reqBuff, logined>>

HandleRecvMsg ==
    /\ game = "recv"
    /\ rcvBuff # <<>>
    /\ rcvBuff' = Tail(rcvBuff)
    /\ \E o \in {Head(rcvBuff)} :
          \/ HandleText(o) \/ HandleUserRegAccepted(o) \/ HandleUserLogAccepted(o)
          \/ HandleAskForFriend(o)
          \/ HandleAskForFriendTooLong(o) \/ HandleAskForFriendAccept(o)
    /\ UNCHANGED <<term, lock, talking, outputMsg, sysCmdQue, ahead, ttys, buff, disk,
                   unsaved, saved, pending, counts>>

NothingReceived ==
    /\ game = "recv" /\ rcvBuff = <<>>
    /\ game' = "sysInput"
    /\ UNCHANGED <<term, lock, talking, outputMsg, sysCmdQue, ahead, ttys,
                   queues, cur, data, past, counts>>

\* The rest of setPlayerLogin.
SetPlayerLogin ==
    /\ game = "login"
    /\ player' = [player EXCEPT !.id = cur.id]
    /\ game' = "open"
    /\ RaceWith(term)
    /\ UNCHANGED <<term, lock, talking, outputMsg, sysCmdQue, ahead, ttys, queues, cur,
                   reqBuff, logined, disk, unsaved, saved, pending, counts>>

\* savePlayerData on the game loop.  The answer is looked at when a friend was
\* added, and not when the player logged in.
GameOpens ==
    /\ game = "open"
    /\ \/ OpenFile /\ game' = "write" /\ UNCHANGED <<sysBuff, cur, unsaved>>
       \/ /\ UNCHANGED disk
          /\ unsaved' = TRUE
          /\ IF cur.type = "ACC" THEN UNCHANGED sysBuff ELSE Tell(cur.about)
          /\ cur' = NoCur
          /\ game' = "sysInput"
    /\ RaceWith(term)
    /\ UNCHANGED <<term, lock, talking, outputMsg, sysCmdQue, ahead, ttys, rcvBuff, buff,
                   reqBuff, logined, player, saved, pending, counts>>

GameWrites ==
    /\ game = "write"
    /\ WriteFile
    /\ Tell(cur.about)
    /\ cur' = NoCur
    /\ game' = "sysInput"
    /\ RaceWith(term)
    /\ UNCHANGED <<term, lock, talking, outputMsg, sysCmdQue, ahead, ttys, rcvBuff, buff,
                   reqBuff, logined, player, pending, counts>>

\* handleSysInput: CMD_ENTER turns to talk, which waits for the mutex; the
\* other system keys do nothing.
HandleSysInput ==
    /\ game = "sysInput"
    /\ \/ sysCmdQue = <<>> /\ UNCHANGED <<sysCmdQue, talking, term>>
       \/ /\ sysCmdQue # <<>> /\ Head(sysCmdQue) # "enter"
          /\ sysCmdQue' = Tail(sysCmdQue)
          /\ UNCHANGED <<talking, term>>
       \/ /\ sysCmdQue # <<>> /\ Head(sysCmdQue) = "enter"
          /\ lock = None
          /\ sysCmdQue' = Tail(sysCmdQue)
          /\ talking' = TRUE
          /\ term' = NotifyTerminal
    /\ game' = "scan"
    /\ UNCHANGED <<lock, outputMsg, ahead, ttys, queues, cur, data, past, counts>>

AlwaysTime == lock = None       \* faulty: the flag is not looked at
IsTimeToReadKey == lock = None /\ ~ talking

TtysLeft == ttys < MaxTtys

\* /dev/tty is opened, and nobody will close it.
OpenTty ==
    /\ ttys' = IF TtysLeft THEN ttys + 1 ELSE ttys
    /\ game' = "keys"
    /\ UNCHANGED term

\* assert(keyboard > 0) fails, and the process ends with all its threads.
Abort == game' = "ended" /\ term' = "ended" /\ UNCHANGED ttys

\* scanKeyBoard waits for the mutex to see whether the terminal talks.
ScanKeyBoard ==
    /\ game = "scan" /\ lock = None
    /\ \/ ~ IsTimeToReadKey /\ game' = "sysMsg" /\ UNCHANGED <<term, ttys>>
       \/ IsTimeToReadKey /\ OpenTty
       \/ IsTimeToReadKey /\ ~ TtysLeft /\ Abort
    /\ UNCHANGED <<lock, talking, outputMsg, sysCmdQue, ahead,
                   queues, cur, data, past, counts>>

\* After half a second without a key the variable in is read uninitialized:
\* any key may be found, pressed or not.
KeyFound(key) ==
    /\ game = "keys"
    /\ keys < MaxKeys
    /\ keys' = keys + 1
    /\ \/ key = "move" /\ buff' = Append(buff, "CMD") /\ UNCHANGED sysCmdQue
       \/ key # "move" /\ sysCmdQue' = Append(sysCmdQue, key) /\ UNCHANGED buff
    /\ game' = "sysMsg"
    /\ UNCHANGED <<term, lock, talking, outputMsg, ahead, ttys, sysBuff, rcvBuff, cur,
                   data, past, objs, restarts>>

NoKeyFound ==
    /\ game = "keys"
    /\ game' = "sysMsg"
    /\ UNCHANGED <<term, lock, talking, outputMsg, sysCmdQue, ahead, ttys,
                   queues, cur, data, past, counts>>
-----------------------------------------------------------------------------
\* Client::run and Client::recvMsg.
SendOne ==
    /\ game # "ended"
    /\ buff # <<>>
    /\ buff' = Tail(buff)
    /\ UNCHANGED <<ui, sysBuff, rcvBuff, cur, data, past, counts>>

RecvMsg(o) ==
    /\ game # "ended"
    /\ objs < MaxObjs
    /\ objs' = objs + 1
    /\ rcvBuff' = Append(rcvBuff, o)
    /\ pending' = pending \cup ({o.about} \ {0})
    /\ UNCHANGED <<ui, sysBuff, buff, cur, data, raced, unsaved, saved, keys, restarts>>

\* The client ends, at any step, or has ended, and is started again
\* (clientInit).
Restart ==
    /\ restarts < MaxRestarts
    /\ restarts' = restarts + 1
    /\ IF LoadThrows(disk) THEN game' = "ended" /\ term' = "ended"
                           ELSE game' = "sysMsg" /\ term' = "run"
    /\ lock' = None /\ talking' = FALSE
    /\ outputMsg' = <<>> /\ sysCmdQue' = <<>> /\ ahead' = <<>> /\ ttys' = 0
    /\ sysBuff' = <<>> /\ rcvBuff' = <<>> /\ buff' = <<>>
    /\ cur' = NoCur
    /\ reqBuff' = <<>> /\ logined' = FALSE
    /\ player' = Loaded(disk)
    /\ unsaved' = (unsaved \/ game \in Saving \/ term \in Saving)
    /\ pending' = {}
    /\ UNCHANGED <<disk, raced, saved, keys, objs>>

Words == [cmd : Commands \ {"accept"}, index : {1}]
           \cup [cmd : Commands \cap {"accept"}, index : 1..MaxIndex]
Lines == UNION {[1..k -> Words] : k \in 1..MaxWords}

GameStep ==
    \/ HandleSysMsg \/ PutOutputMsg
    \/ HandleRecvMsg \/ NothingReceived \/ SetPlayerLogin \/ GameOpens \/ GameWrites
    \/ HandleSysInput \/ ScanKeyBoard
    \/ \E key \in Keys : KeyFound(key)
    \/ NoKeyFound

TerminalStep ==
    \/ Rest \/ HandleOutputMsg \/ HandleTalk
    \/ SayWord \/ AcceptRequest \/ TerminalOpens \/ TerminalWrites

Next ==
    \/ GameStep \/ TerminalStep \/ SpuriousWakeup
    \/ \E line \in Lines : Type(line)
    \/ SendOne
    \/ \E o \in Received(objs + 1) : RecvMsg(o)
    \/ Restart

Spec == Init /\ [][Next]_vars

\* The threads go on; the player need not type, nor the server send.
FairSpec == Spec /\ WF_vars(GameStep) /\ WF_vars(TerminalStep) /\ WF_vars(SendOne)
-----------------------------------------------------------------------------
Steps == {"sysMsg", "put", "recv", "login", "open", "write", "sysInput", "scan", "keys",
          "ended"}
Objects == [type : {"none", "TEXT", "REG_ACCEPT", "LOGIN_ACCEPT", "ASK", "ACC"},
            id : Ids \cup {-1}, name : Names \cup {NoName}, about : 0..MaxObjs]
SysMsgs == [type : {"OUTPUT", "FRIENDS", "REQUESTS"}, about : 0..MaxObjs]
Requests == {Anyone[c] : c \in DOMAIN Anyone} \cup {Members[c] : c \in DOMAIN Members}
              \cup {"ACC", "CMD"}

TypeOK ==
    /\ game \in Steps
    /\ term \in {"run", "asleep", "reading", "open", "write", "ended"}
    /\ lock \in {None, "terminal"}
    /\ talking \in BOOLEAN
    /\ outputMsg \in Seq(0..MaxObjs)
    /\ sysCmdQue \in Seq({"enter", "map"})
    /\ sysBuff \in Seq(SysMsgs)
    /\ rcvBuff \in Seq(Objects)
    /\ buff \in Seq(Requests)
    /\ ahead \in Seq(Words)
    /\ ttys \in 0..MaxTtys
    /\ cur \in Objects
    /\ reqBuff \in Seq(Names)
    /\ logined \in BOOLEAN
    /\ player \in PlayerData
    /\ disk \in PlayerData \cup {Empty, Torn}
    /\ raced \in BOOLEAN /\ unsaved \in BOOLEAN
    /\ saved \in SUBSET Names
    /\ pending \in SUBSET (1..MaxObjs)
    /\ keys \in 0..MaxKeys /\ objs \in 0..MaxObjs /\ restarts \in 0..MaxRestarts

\* The keyboard has one reader: while the game loop looks for a key, which it
\* does without the mutex for up to half a second, the terminal thread does not
\* talk; and a key for talking that was found leads to a talk of its own, as
\* nobody talks when it is acted on (ReadKey.cpp:36-73, IOManger.h:34-61).
OneReader ==
    /\ game = "keys" => ~ talking /\ lock = None
    /\ sysCmdQue # <<>> => ~ talking /\ lock = None /\ Len(sysCmdQue) = 1

\* The terminal thread does not sleep on something to say or to show
\* (IOManger.h:38, 57-67).
TerminalAwake == term = "asleep" => ~ talking /\ outputMsg = <<>>

\* Only who is logged in has something other than a registration, a login or a
\* key sent, although the flag is set by one thread and looked at by the other
\* (Util.cpp:73-201, Player.h:81-86).
SentByMembers ==
    ~ logined => \A k \in DOMAIN buff : buff[k] \in {"LOGIN", "REG", "CMD"}

\* As long as every save succeeded and the two threads kept apart, no friend
\* that was ever saved is missing, in memory or, once nobody saves, in the file
\* (Player.h:106-118, Player.cpp:12-45).
NoFriendForgotten ==
    ~ raced /\ ~ unsaved =>
        /\ saved \subseteq Friends(player)
        /\ game \notin Saving /\ term \notin Saving =>
              Friends(player) = Friends(Loaded(disk))

\* The game updates the world 60 times a second (README.md:8): frame follows
\* frame for ever.
Frames == []<>(game = "sysMsg") /\ []<>(game = "scan")

\* What the loop really promises: frame follows frame until the client ends,
\* which it does by itself only without a descriptor for the keyboard or with a
\* torn file, or until it waits for a player who does not type
\* (Game.cpp:28-49, ReadKey.cpp:60-61, IOManger.cpp:20, Player.cpp:29-38).
LoopGoesOn ==
    \/ Frames
    \/ <>[](game = "ended" /\ (~ TtysLeft \/ LoadThrows(disk)))
    \/ <>[](term = "reading")

\* What was received is shown, or the client ends, unless the terminal waits
\* for the player or addFriend failed (HandleMsg.cpp:177-445).
ReceivedIsShown ==
    pending # {} ~> \/ pending = {} \/ game = "ended"
                    \/ term = "reading" \/ unsaved
                    \/ Cardinality(Friends(player)) >= MaxFriends
=============================================================================
