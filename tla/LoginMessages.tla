--------------------------- MODULE LoginMessages ---------------------------
(***************************************************************************)
(* What the messages of a login say: the numbers from which the server      *)
(* (EIBServer/src/ClientsMgr.cpp, Client.cpp) and a program                 *)
(* (EIBStdLib/src/GenericServer.cpp) compute the key they share             *)
(* (DiffieHellman.cpp), and the HTTP requests and replies that carry them   *)
(* (HttpRequest.cpp, HttpReply.cpp, HttpParser.cpp), encrypted              *)
(* (DataBuffer.cpp).  Handshake has the losses, the retries and the ends of *)
(* sessions; here one program asks once, and datagrams arrive.              *)
(*                                                                         *)
(* A text is a word or a number with blanks before and after it.            *)
(***************************************************************************)
EXTENDS Integers, Sequences, FiniteSets

CONSTANTS
  LoginDraws,     (* what GenerateRandomNumber % MAX_PRIME_NUMBER may be     *)
  LoginPrivates,  (* what GenerateRandomNumber % MAX_RANDOM_INTEGER may be   *)
  LoginUsers,     (* the users' names, each with the password                *)
  LoginNames,     (* names and passwords that a program may be given         *)
  LoginPasswords,
  LoginModes      (* modes of the server's interface                         *)

(* Below 5 the test of a prime divides by zero or recurses for ever, and so *)
(* does the power of 0: one draw in a thousand million.                     *)
ASSUME LoginAssumption ==
  /\ LoginDraws \subseteq Nat \ (0 .. 4) /\ LoginPrivates \subseteq Nat \ {0}
  /\ LoginUsers \in [DOMAIN LoginUsers -> LoginPasswords]
  /\ DOMAIN LoginUsers \subseteq LoginNames
  /\ \A text \in LoginNames \cup LoginPasswords :
       text \in [before : Nat, word : {text.word}, after : Nat]

VARIABLES
  loginServer,   (* the server: its manager until the hello, then CClient    *)
  loginProgram,  (* the program                                              *)
  loginNet       (* the datagram on its way, if there is one                 *)

loginVars == <<loginServer, loginProgram, loginNet>>

-----------------------------------------------------------------------------
(* Keys.                                                                    *)

XpowYmodN(x, y, n) ==
  LET power[e \in 1 .. y] ==
        IF e = 1 THEN x % n
        ELSE LET square == (power[e \div 2] * power[e \div 2]) % n
             IN IF e % 2 = 0 THEN square ELSE (square * x) % n
  IN power[y]

(* MillerRabin draws a witness five times, perhaps the same one.            *)
Witnesses(n) == 2 .. n - 2
IsItPrime(n, a) == XpowYmodN(a, n - 1, n) = 1
MayPass(n) == \E a \in Witnesses(n) : IsItPrime(n, a)
MayFail(n) == \E a \in Witnesses(n) : ~ IsItPrime(n, a)

(* The first odd number from the draw on that passes; there is a prime      *)
(* below twice the number.                                                  *)
GeneratePrime(draw) ==
  LET odd == 2 * (draw \div 2) + 1
  IN {p \in odd .. 2 * odd :
        /\ p % 2 = 1 /\ MayPass(p)
        /\ \A q \in odd .. p - 1 : q % 2 = 1 => MayFail(q)}

Primes == UNION {GeneratePrime(draw) : draw \in LoginDraws}

NoKeys == [generator |-> 0, modulus |-> 0, private |-> 0, public |-> 0, shared |-> 0]

CreateKeys(p, q) ==
  [NoKeys EXCEPT !.generator = IF p > q THEN q ELSE p, !.modulus = IF p > q THEN p ELSE q]

WithPrivate(dh, private) ==
  [dh EXCEPT !.private = private, !.public = XpowYmodN(dh.generator, private, dh.modulus)]

CreateSenderInterKey(dh, private) == WithPrivate(dh, private)

RecipientSwapped(dh, private, generator, modulus) ==
  WithPrivate([dh EXCEPT !.generator = modulus, !.modulus = generator], private)
CreateRecipientInterKey(dh, private, generator, modulus) ==
  WithPrivate([dh EXCEPT !.generator = generator, !.modulus = modulus], private)

(* CreateSenderEncryptionKey and CreateRecipientEncryptionKey.              *)
CreateEncryptionKey(dh, public) == [dh EXCEPT !.shared = XpowYmodN(public, dh.private, dh.modulus)]

-----------------------------------------------------------------------------
(* Messages.                                                                *)

LoginText(word) == [before |-> 0, word |-> word, after |-> 0]
Number(n) == LoginText(n)
ToInt(text) == text.word
Trim(text) == [text EXCEPT !.before = 0, !.after = 0]

AddHeader(headers, name, text) ==
  [h \in DOMAIN headers \cup {name} |-> IF h \in DOMAIN headers THEN headers[h] ELSE text]

NoContent(headers) == AddHeader(headers, "Content-Length", Number(0))
WithBlanks(headers) == [h \in DOMAIN headers |-> [headers[h] EXCEPT !.before = @ + 1]]

(* The requests and replies of a login have no parameters and no content.   *)
FinalizeRequest(uri, headers) ==
  [line |-> <<"GET", uri, "HTTP/1.0">>, headers |-> WithBlanks(NoContent(headers))]
FinalizeReply(headers) ==
  [line |-> <<"HTTP/1.0", "200", "OK">>,
   headers |-> WithBlanks(NoContent(AddHeader(headers, "Content-Type", LoginText("text/plain"))))]

(* The key is repeated over the message, with exclusive or: the key that    *)
(* encrypted a message turns it back, and another makes nothing of it that  *)
(* a parser takes for a message.                                            *)
Encrypt(message, key) == [message |-> message, key |-> key]
Unreadable == [line |-> <<>>, headers |-> <<>>]
Decrypt(data, key) == IF data.key = key THEN data.message ELSE Unreadable

ParseHeaders(headers) == [h \in DOMAIN headers |-> Trim(headers[h])]

ParseRequest(message, uri, needed) ==
  [legal |-> /\ message.line = <<"GET", uri, "HTTP/1.0">>
             /\ needed \subseteq DOMAIN message.headers,
   headers |-> ParseHeaders(message.headers)]
ParseReply(message, needed) ==
  [legal |-> /\ message.line = <<"HTTP/1.0", "200", "OK">>
             /\ needed \subseteq DOMAIN message.headers,
   headers |-> ParseHeaders(message.headers)]

-----------------------------------------------------------------------------
InitialKey == <<"initial", 0>>
OtherKey == <<"other", 0>>
Shared(dh) == <<"shared", dh.shared>>

(* Where each side listens; the discovery has a socket of its own.          *)
Ports == [manager |-> 5000, data |-> 5001, beat |-> 5002]
ProgramPorts == [data |-> 6001, beat |-> 6002]
SessionId == 1

NoHeaders == [h \in {} |-> <<>>]
Nothing == [to |-> "nobody", data |-> [message |-> Unreadable, key |-> <<>>]]
Sends(to, message, key) == loginNet' = [to |-> to, data |-> Encrypt(message, key)]
Arrived(key) == Decrypt(loginNet.data, key)

LoginInit ==
  /\ loginServer \in [pc : {"listens"}, dh : {NoKeys}, mode : LoginModes,
                      ports : {<<0, 0>>}, user : {LoginText("")}]
  /\ loginProgram \in [pc : {"start"}, dh : {NoKeys}, initial : {InitialKey, OtherKey},
                       port : {0}, ports : {<<0, 0>>}, session : {0},
                       name : LoginNames, password : LoginPasswords,
                       mode : {"undefined"}, result : {"none"}]
  /\ loginNet = Nothing

LoginResult(result) == loginProgram' = [loginProgram EXCEPT !.pc = "done", !.result = result]

(* A program whose configuration has no address of a server asks for it.    *)
LoginDiscovers ==
  /\ loginProgram.pc = "start" /\ loginProgram.port = 0
  /\ Sends("manager",
           FinalizeRequest("DISCOVERY", AddHeader(AddHeader(NoHeaders, "Address", LoginText("program")),
                                                  "Data-Port", Number(ProgramPorts.data))),
           loginProgram.initial)
  /\ loginProgram' = [loginProgram EXCEPT !.pc = "discovers"]
  /\ UNCHANGED loginServer

(* What is not such a request is not answered.                              *)
LoginServiceDiscovery ==
  /\ loginProgram.pc = "discovers" /\ loginNet.to = "manager"
  /\ LET request == ParseRequest(Arrived(InitialKey), "DISCOVERY", {"Address", "Data-Port"})
     IN IF request.legal
        THEN Sends("program",
                   FinalizeReply(AddHeader(AddHeader(NoHeaders, "Address", LoginText("server")),
                                           "Data-Port", Number(Ports.manager))),
                   InitialKey)
        ELSE loginNet' = Nothing
  /\ UNCHANGED <<loginServer, loginProgram>>

LoginDiscovered ==
  /\ loginProgram.pc = "discovers" /\ loginNet.to # "manager"
  /\ IF loginNet = Nothing THEN LoginResult("no reply")
     ELSE LET reply == ParseReply(Arrived(loginProgram.initial), {"Address", "Data-Port"})
          IN IF reply.legal
             THEN loginProgram' = [loginProgram EXCEPT !.pc = "start",
                                                       !.port = ToInt(reply.headers["Data-Port"])]
             ELSE LoginResult("internal error")
  /\ loginNet' = Nothing
  /\ UNCHANGED loginServer

(* FirstPhaseConnection, with the port found or the one configured.         *)
FirstPhaseConnection ==
  /\ loginProgram.pc = "start"
  /\ Sends("manager",
           FinalizeRequest("HELLO",
             AddHeader(AddHeader(AddHeader(AddHeader(NoHeaders,
               "Network", LoginText("program")), "Data-Port", Number(ProgramPorts.data)),
               "KeepAlive-Port", Number(ProgramPorts.beat)), "Address", LoginText("program"))),
           loginProgram.initial)
  /\ loginProgram' = [loginProgram EXCEPT !.pc = "greets", !.port = Ports.manager]
  /\ UNCHANGED loginServer

(* CreatePublicData.                                                        *)
PublicData(dh) ==
  AddHeader(AddHeader(AddHeader(AddHeader(AddHeader(AddHeader(NoHeaders,
    "Modulus", Number(dh.modulus)), "Interim", Number(dh.public)),
    "Generator", Number(dh.generator)), "Data-Port", Number(Ports.data)),
    "Session-ID", Number(SessionId)), "KeepAlive-Port", Number(Ports.beat))

(* IsOpenConnectionMessage, InitClient, and the session's thread up to      *)
(* where it waits for the program's number.                                 *)
LoginHello ==
  /\ loginServer.pc = "listens" /\ loginProgram.pc = "greets" /\ loginNet.to = "manager"
  /\ LET request == ParseRequest(Arrived(InitialKey), "HELLO",
                                 {"Address", "Data-Port", "KeepAlive-Port"})
     IN IF request.legal
        THEN \E p, q \in Primes, private \in LoginPrivates :
               LET dh == CreateSenderInterKey(CreateKeys(p, q), private)
               IN /\ loginServer' = [loginServer EXCEPT
                        !.pc = "exchanges", !.dh = dh,
                        !.ports = <<ToInt(request.headers["Data-Port"]),
                                    ToInt(request.headers["KeepAlive-Port"])>>]
                  /\ Sends("program", FinalizeReply(PublicData(dh)), InitialKey)
        ELSE loginNet' = Nothing /\ UNCHANGED loginServer
  /\ UNCHANGED loginProgram

NoReply ==
  /\ loginProgram.pc = "greets" /\ loginNet = Nothing
  /\ LoginResult("no reply")
  /\ UNCHANGED <<loginServer, loginNet>>

(* OpenConnection, from the server's numbers to the program's.              *)
OpenConnectionKeys ==
  /\ loginProgram.pc = "greets" /\ loginNet.to = "program"
  /\ LET reply == ParseReply(Arrived(loginProgram.initial), DOMAIN PublicData(NoKeys))
         Said(name) == ToInt(reply.headers[name])
     IN IF reply.legal
        THEN \E private \in LoginPrivates :
               LET mine == CreateRecipientInterKey(NoKeys, private, Said("Generator"), Said("Modulus"))
               IN /\ loginProgram' = [loginProgram EXCEPT
                        !.pc = "exchanges", !.session = Said("Session-ID"),
                        !.ports = <<Said("Data-Port"), Said("KeepAlive-Port")>>,
                        !.dh = CreateEncryptionKey(mine, Said("Interim"))]
                  /\ Sends("session",
                           FinalizeRequest("PUBLIC_DATA",
                             AddHeader(AddHeader(NoHeaders, "Interim", Number(mine.public)),
                                       "Client-Type", Number(1))),
                           loginProgram.initial)
        ELSE LoginResult("internal error") /\ loginNet' = Nothing
  /\ UNCHANGED loginServer

SessionEnds == loginServer' = [loginServer EXCEPT !.pc = "ended"] /\ loginNet' = Nothing

(* The rest of ExchangeKeys: the reply without headers says that the key    *)
(* is shared.                                                               *)
LoginExchangesKeys ==
  /\ loginServer.pc = "exchanges" /\ loginNet.to = "session"
  /\ LET request == ParseRequest(Arrived(InitialKey), "PUBLIC_DATA", {"Client-Type", "Interim"})
         dh == CreateEncryptionKey(loginServer.dh, ToInt(request.headers["Interim"]))
     IN IF request.legal
        THEN /\ loginServer' = [loginServer EXCEPT !.pc = "authenticates", !.dh = dh]
             /\ Sends("program", FinalizeReply(NoHeaders), Shared(dh))
        ELSE SessionEnds
  /\ UNCHANGED loginProgram

(* OpenConnection, from the confirmation to the request of Authenticate.    *)
OpenConnectionLogin ==
  /\ loginProgram.pc = "exchanges" /\ loginNet.to # "session"
  /\ IF loginNet.to = "program" /\ ParseReply(Arrived(Shared(loginProgram.dh)), {}).legal
     THEN /\ loginProgram' = [loginProgram EXCEPT !.pc = "logs in"]
          /\ Sends("session",
                   FinalizeRequest("AUTHENTICATE",
                     AddHeader(AddHeader(NoHeaders, "User-Name", loginProgram.name),
                               "Password", loginProgram.password)),
                   Shared(loginProgram.dh))
     ELSE LoginResult("internal error") /\ loginNet' = Nothing
  /\ UNCHANGED loginServer

AuthenticateUser(name, password) == name \in DOMAIN LoginUsers /\ LoginUsers[name] = password

(* A login that fails is not answered.                                      *)
LoginAuthenticates ==
  /\ loginServer.pc = "authenticates" /\ loginNet.to = "session"
  /\ LET request == ParseRequest(Arrived(Shared(loginServer.dh)), "AUTHENTICATE",
                                 {"User-Name", "Password"})
     IN IF /\ request.legal
           /\ AuthenticateUser(request.headers["User-Name"], request.headers["Password"])
        THEN /\ loginServer' = [loginServer EXCEPT !.pc = "logged in",
                                                   !.user = request.headers["User-Name"]]
             /\ Sends("program",
                      FinalizeReply(AddHeader(NoHeaders, "Mode", Number(loginServer.mode))),
                      Shared(loginServer.dh))
        ELSE SessionEnds
  /\ UNCHANGED loginProgram

AuthenticateReturns ==
  /\ loginProgram.pc = "logs in" /\ loginNet.to # "session"
  /\ LET reply == ParseReply(Arrived(Shared(loginProgram.dh)), {"Mode"})
     IN IF loginNet.to = "program" /\ reply.legal
        THEN loginProgram' = [loginProgram EXCEPT !.pc = "done", !.result = "ok",
                                                  !.mode = ToInt(reply.headers["Mode"])]
        ELSE LoginResult("incorrect credentials")
  /\ loginNet' = Nothing
  /\ UNCHANGED loginServer

LoginNext ==
  \/ LoginDiscovers \/ LoginServiceDiscovery \/ LoginDiscovered
  \/ FirstPhaseConnection \/ LoginHello \/ NoReply \/ OpenConnectionKeys
  \/ LoginExchangesKeys \/ OpenConnectionLogin \/ LoginAuthenticates \/ AuthenticateReturns

-----------------------------------------------------------------------------
LoginKnown == AuthenticateUser(Trim(loginProgram.name), Trim(loginProgram.password))

(* Whatever numbers both sides draw, the login ends as it should: a program *)
(* that is told that it is connected shares the key, the ports, the session *)
(* and the mode with the server, which takes it for the user it named;      *)
(* only an unknown user is refused, only another initial key is not         *)
(* answered, and no message of one side is unreadable for the other         *)
(* (OpenConnection, ExchangeKeys, Authenticate, HttpParser.cpp).            *)
LoginAgrees ==
  /\ loginProgram.result = "ok" =>
       /\ loginServer.pc = "logged in" /\ loginServer.user = Trim(loginProgram.name)
       /\ loginServer.dh.shared = loginProgram.dh.shared
       /\ loginServer.mode = loginProgram.mode /\ loginProgram.session = SessionId
       /\ loginProgram.ports = <<Ports.data, Ports.beat>>
       /\ loginServer.ports = <<ProgramPorts.data, ProgramPorts.beat>>
  /\ loginProgram.result = "incorrect credentials" => ~ LoginKnown
  /\ loginProgram.result = "no reply" => loginProgram.initial = OtherKey
  /\ loginProgram.result # "internal error"
=============================================================================
