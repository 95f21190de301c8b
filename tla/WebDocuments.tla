---------------------------- MODULE WebDocuments ----------------------------
(***************************************************************************)
(* The documents between the server and the pages of the administrator: the *)
(* server builds a tree, prints it as XML and turns the text into JSON with  *)
(* a parser of its own (XmlToJson), the page shows it, edits it and writes   *)
(* XML by putting strings together, which the server reads with TinyXML.    *)
(* Nobody but TinyXML's printer and reader escapes anything: an entity       *)
(* travels through the JSON, the page and the XML of the page as it is.      *)
(* JSON is modelled as the browser has it once it is parsed.                *)
(***************************************************************************)
EXTENDS XmlDocument

CONSTANTS
  DocUsers,     \* lists of users that the server may have
  DocTyped,     \* users as an administrator may type them
  DocPosts,     \* lists that another program sends: the text and what it means
  DocTables,    \* addresses of the bus monitor, as rows
  DocDevices,   \* states of the interface, as rows
  DocMaxEdits,  \* bound: edits and lists sent
  DocMayEmpty   \* the last user may be deleted

VARIABLES
  docDb,     \* the users that the server has
  docPage,   \* the list of the page: objects of JSON
  docRows,   \* the users that the administrator takes them for
  docBody,   \* the request under way, or <<>>
  docUp,     \* the server runs
  docEdits,  \* edits and lists sent
  docView    \* the page or document seen last: what was shown or read, and what it is of

docVars == <<docDb, docPage, docRows, docBody, docUp, docEdits, docView>>

-----------------------------------------------------------------------------
(* XmlToJson.  An object is a function from the names of its members to the  *)
(* sequences of their values; p is a place in the text, past its end too.   *)

JsonText(text) == [kind |-> "text", text |-> text]
JsonObject(of) == [kind |-> "object", of |-> of]

(* Mutant: the last item of a list is the only one.                          *)
AddMemberReplacing(of, name, value) == name :> <<value>> @@ of

(* Add a value to those of a name.                                          *)
AddMember(of, name, value) ==
  IF name \in DOMAIN of THEN [of EXCEPT ![name] = Append(@, value)] ELSE name :> <<value>> @@ of

JsonSkip(s, p) == UpTo(s, p, LAMBDA c : ~IsWhiteSpace(c))
(* The name up to a blank or the end, and the place behind the tag: one that *)
(* ends itself is taken for an open one.                                    *)
JsonTagName(s, p) ==
  [name |-> SubSeq(s, p + 1, UpTo(s, p + 1, LAMBDA c : c \in {">", " ", "/", "?", "?xml"}) - 1),
   p |-> UpTo(s, p + 1, LAMBDA c : c = ">") + 1]
ClosingTag(name) == <<"<", "/">> \o name \o <<">">>
IsClosingTag(s, p, name) == StringEqual(s, p, ClosingTag(name))

RECURSIVE JsonChildren(_, _, _)

(* A value, and the place behind it.                                        *)
JsonMember(s, name, of, p, value) == JsonChildren(s, p, AddMember(of, name, value))
JsonNested(s, name, of, nested) == JsonMember(s, name, of, nested.p, nested.value)
JsonAfterText(s, name, of, from, p) ==
  IF IsClosingTag(s, p, name)
  THEN JsonMember(s, name, of, p + Len(ClosingTag(name)), JsonText(SubSeq(s, from, p - 1)))
  ELSE JsonNested(s, name, of, JsonChildren(s, p, <<>>))
JsonTagged(s, name, of, p) == JsonAfterText(s, name, of, p, UpTo(s, p, LAMBDA c : c = "<"))
JsonChild(s, of, tag) == JsonTagged(s, tag.name, of, JsonSkip(s, tag.p))
JsonChildrenAt(s, p, of) ==
  IF p > Len(s) THEN Found(p, JsonObject(of))
  ELSE IF s[p] # "<" THEN JsonChildren(s, p + 1, of)
  ELSE IF Here(s, p + 1) = "/" THEN Found(UpTo(s, p, LAMBDA c : c = ">") + 1, JsonObject(of))
  ELSE JsonChild(s, of, JsonTagName(s, p))
JsonChildren(s, p, of) == JsonChildrenAt(s, JsonSkip(s, p), of)

JsonDeclaration(s, p) ==
  IF StringEqual(s, p, <<"<", "?xml">>) THEN JsonSkip(s, Until(s, p, <<"?", ">">>) + 2) ELSE p
JsonElement(s, tag) == JsonChildren(s, tag.p, <<>>).value
XmlToJson(s) == JsonElement(s, JsonTagName(s, JsonDeclaration(s, JsonSkip(s, 1))))

-----------------------------------------------------------------------------
(* The documents of the server.  The fields that are not kept are given      *)
(* their values for a user who is not connected.                            *)

UserFields(user) ==
  <<<<"EIB_SERVER_USER_NAME", user.name>>, <<"EIB_SERVER_USER_PASSWORD", user.pass>>,
    <<"EIB_SERVER_USER_IS_CONNECTED", <<"false">>>>, <<"EIB_SERVER_USER_SESSION_ID", <<"-1">>>>,
    <<"EIB_SERVER_USER_PRIVILIGES", user.rights>>, <<"EIB_SERVER_USER_IP_ADDRESS", <<>>>>,
    <<"EIB_SERVER_USER_SOURCE_ADDR_MASK", user.src>>, <<"EIB_SERVER_USER_DST_ADDR_MASK", user.dst>>>>

WithFields(element, fields) ==
  FoldLeft(LAMBDA e, field : InsertEndChild(e, SetValue(field[1], field[2])), element, fields)
(* One element for each record, under the element of the list.               *)
ListDocument(list, item, records) ==
  [NewDocument EXCEPT ![2] =
     InsertEndChild(@, XmlElement(list, [i \in DOMAIN records |-> WithFields(XmlElement(item, <<>>), records[i])]))]

UsersToXml(users) ==
  ListDocument("EIB_SERVER_USERS_LIST", "EIB_SERVER_USER", [i \in DOMAIN users |-> UserFields(users[i])])

BusMonToXml(rows) ==
  ListDocument("EIB_BUS_MON_ADDRESSES_LIST", "EIB_BUS_MON_ADDRESS",
    [i \in DOMAIN rows |->
       <<<<"EIB_BUS_MON_ADDRESS_STR", rows[i].address>>,
         <<"EIB_BUS_MON_IS_ADDRESS_LOGICAL", <<IF rows[i].group THEN "true" ELSE "false">>>>,
         <<"EIB_BUS_MON_ADDR_LAST_RECVED_TIME", rows[i].time>>,
         <<"EIB_BUS_MON_LAST_ADDR_VALUE", rows[i].value>>,
         <<"EIB_BUS_MON_ADDRESSES_COUNT", rows[i].count>>>>])

Described(root, info) ==
  IF info = <<>> THEN root
  ELSE InsertEndChild(root, WithFields(XmlElement("EIB_INTERFACE_DEV_DESCRIPTION", <<>>),
         <<<<"EIB_INTERFACE_DEV_NAME", info[1].name>>, <<"EIB_INTERFACE_DEV_MAC_ADDRESS", info[1].mac>>,
           <<"EIB_INTERFACE_DEV_MULTICAST_ADDRESS", info[1].mcast>>,
           <<"EIB_INTERFACE_DEV_SERIAL_NUMBER", info[1].serial>>,
           <<"EIB_INTERFACE_DEV_SUPPORTED_SERVICES", info[1].services>>,
           <<"EIB_INTERFACE_DEV_PHY_ADDRESS", info[1].phy>>>>))

InterfaceToXml(dev) ==
  [NewDocument EXCEPT ![2] = Described(WithFields(@,
     <<<<"EIB_INTERFACE_ADDRESS", dev.address>>, <<"EIB_INTERFACE_PORT", dev.port>>,
       <<"EIB_INTERFACE_MODE", <<IF dev.mode = "Routing" THEN "MODE_ROUTING" ELSE "MODE_TUNNELING">>>>,
       <<"EIB_INTERFACE_AUTO_DETECT", <<IF dev.auto THEN "true" ELSE "false">>>>,
       <<"EIB_INTERFACE_LAST_TIME_PACKET_SENT", dev.lastSent>>,
       <<"EIB_INTERFACE_LAST_TIME_PACKET_RECEIVED", dev.lastReceived>>,
       <<"EIB_INTERFACE_TOTAL_PACKETS_SENT", dev.sent>>,
       <<"EIB_INTERFACE_TOTAL_PACKETS_RECEIVED", dev.received>>,
       <<"EIB_INTERFACE_RUNNING_STATUS", <<IF dev.running THEN "true" ELSE "false">>>>>>), dev.info)]

(* What a page asks for.                                                    *)
Answer(doc) == XmlToJson(PrintDocument(doc))

-----------------------------------------------------------------------------
(* The pages.                                                              *)

(* value || otherwise: a text that is missing or empty gives way.            *)
Member(object, name) == IF <<name>> \in DOMAIN object.of THEN object.of[<<name>>][1].text ELSE <<>>
MemberOr(object, name, otherwise) ==
  IF Member(object, name) = <<>> THEN otherwise ELSE Member(object, name)
(* The items of a list: a list without any has become a text or an empty     *)
(* object, and one item is no array.                                        *)
Items(object, list, item) ==
  IF <<list>> \notin DOMAIN object.of THEN <<>>
  ELSE LET lists == object.of[<<list>>][1] IN
       IF lists.kind = "text" \/ <<item>> \notin DOMAIN lists.of THEN <<>> ELSE lists.of[<<item>>]

ShownTable(object) ==
  LET rows == Items(object, "EIB_BUS_MON_ADDRESSES_LIST", "EIB_BUS_MON_ADDRESS") IN
  [i \in DOMAIN rows |->
     [address |-> MemberOr(rows[i], "EIB_BUS_MON_ADDRESS_STR", <<"--">>),
      group |-> Member(rows[i], "EIB_BUS_MON_IS_ADDRESS_LOGICAL") = <<"true">>,
      time |-> MemberOr(rows[i], "EIB_BUS_MON_ADDR_LAST_RECVED_TIME", <<"Never">>),
      value |-> MemberOr(rows[i], "EIB_BUS_MON_LAST_ADDR_VALUE", <<"0x0">>),
      count |-> MemberOr(rows[i], "EIB_BUS_MON_ADDRESSES_COUNT", <<"0">>)]]

ShownInfo(info) ==
  [name |-> MemberOr(info, "EIB_INTERFACE_DEV_NAME", <<"--">>),
   mac |-> MemberOr(info, "EIB_INTERFACE_DEV_MAC_ADDRESS", <<"--">>),
   phy |-> MemberOr(info, "EIB_INTERFACE_DEV_PHY_ADDRESS", <<"--">>),
   serial |-> MemberOr(info, "EIB_INTERFACE_DEV_SERIAL_NUMBER", <<"--">>),
   mcast |-> MemberOr(info, "EIB_INTERFACE_DEV_MULTICAST_ADDRESS", <<"--">>)]

ShownDevice(d) ==
  [address |-> MemberOr(d, "EIB_INTERFACE_ADDRESS", <<"--">>),
   port |-> MemberOr(d, "EIB_INTERFACE_PORT", <<"--">>),
   mode |-> IF Member(d, "EIB_INTERFACE_MODE") = <<"MODE_ROUTING">> THEN "Routing" ELSE "Tunneling",
   auto |-> Member(d, "EIB_INTERFACE_AUTO_DETECT") = <<"true">>,
   lastSent |-> MemberOr(d, "EIB_INTERFACE_LAST_TIME_PACKET_SENT", <<"Never">>),
   lastReceived |-> MemberOr(d, "EIB_INTERFACE_LAST_TIME_PACKET_RECEIVED", <<"Never">>),
   sent |-> MemberOr(d, "EIB_INTERFACE_TOTAL_PACKETS_SENT", <<"0">>),
   received |-> MemberOr(d, "EIB_INTERFACE_TOTAL_PACKETS_RECEIVED", <<"0">>),
   running |-> Member(d, "EIB_INTERFACE_RUNNING_STATUS") = <<"true">>,
   info |-> IF <<"EIB_INTERFACE_DEV_DESCRIPTION">> \notin DOMAIN d.of THEN <<>>
            ELSE <<ShownInfo(d.of[<<"EIB_INTERFACE_DEV_DESCRIPTION">>][1])>>]

(* The XML that the page of the users sends.                                *)
PageFields ==
  <<<<"EIB_SERVER_USER_IP_ADDRESS", <<"0.0.0.0">>>>, <<"EIB_SERVER_USER_NAME", <<>>>>,
    <<"EIB_SERVER_USER_PASSWORD", <<>>>>, <<"EIB_SERVER_USER_IS_CONNECTED", <<"false">>>>,
    <<"EIB_SERVER_USER_SESSION_ID", <<"0">>>>, <<"EIB_SERVER_USER_PRIVILIGES", <<"0">>>>,
    <<"EIB_SERVER_USER_SOURCE_ADDR_MASK", <<"65535">>>>, <<"EIB_SERVER_USER_DST_ADDR_MASK", <<"65535">>>>>>
InTags(name, text) == <<"<", name, ">">> \o text \o <<"<", "/", name, ">">>
SavedUser(row) ==
  InTags("EIB_SERVER_USER",
         FlattenSeq([i \in DOMAIN PageFields |->
                       InTags(PageFields[i][1], MemberOr(row, PageFields[i][1], PageFields[i][2]))]))
SavedXml(page) ==
  <<"<", "?xml", " ", "version", "=", "\"", "1.0", "\"", " ", "encoding", "=", "\"", "utf-8", "\"", "?", ">">>
    \o InTags("Root", InTags("EIB_SERVER_USERS_LIST", FlattenSeq([i \in DOMAIN page |-> SavedUser(page[i])])))

(* What the dialog makes of its fields: the name is trimmed, and a mask that *)
(* is no number, or 0, becomes the whole mask.                              *)
IsSolid(c) == ~IsWhiteSpace(c)
Trim(text) ==
  IF \A i \in DOMAIN text : ~IsSolid(text[i]) THEN <<>>
  ELSE SubSeq(text, SelectInSeq(text, IsSolid), SelectLastInSeq(text, IsSolid))
DialogMask(mask) == IF mask = <<"0">> THEN <<"65535">> ELSE mask
DialogUser(typed, row) ==
  JsonObject([key \in {<<PageFields[i][1]>> : i \in DOMAIN PageFields} |->
    <<CASE key = <<"EIB_SERVER_USER_NAME">> -> JsonText(Trim(typed.name))
        [] key = <<"EIB_SERVER_USER_PASSWORD">> -> JsonText(typed.pass)
        [] key = <<"EIB_SERVER_USER_PRIVILIGES">> -> JsonText(typed.rights)
        [] key = <<"EIB_SERVER_USER_SOURCE_ADDR_MASK">> -> JsonText(DialogMask(typed.src))
        [] key = <<"EIB_SERVER_USER_DST_ADDR_MASK">> -> JsonText(DialogMask(typed.dst))
        [] OTHER -> JsonText(Member(row, key[1]))>>])
NewRow == JsonObject("" :> <<>>)

-----------------------------------------------------------------------------
(* The list that the server takes from a request.                           *)

UserElements(doc) ==
  ElementsNamed(ElementsNamed(RootElement(doc), "EIB_SERVER_USERS_LIST")[1], "EIB_SERVER_USER")
KeptFields ==
  {"EIB_SERVER_USER_NAME", "EIB_SERVER_USER_PASSWORD", "EIB_SERVER_USER_PRIVILIGES",
   "EIB_SERVER_USER_SOURCE_ADDR_MASK", "EIB_SERVER_USER_DST_ADDR_MASK"}
UserOf(element) ==
  [name |-> ValueOf(element, "EIB_SERVER_USER_NAME"), pass |-> ValueOf(element, "EIB_SERVER_USER_PASSWORD"),
   rights |-> ValueOf(element, "EIB_SERVER_USER_PRIVILIGES"),
   src |-> ValueOf(element, "EIB_SERVER_USER_SOURCE_ADDR_MASK"),
   dst |-> ValueOf(element, "EIB_SERVER_USER_DST_ADDR_MASK")]

(* An element that is missing is a null pointer, and the first user is not   *)
(* looked for before it is used.                                            *)
HasList(doc) == ElementsNamed(RootElement(doc), "EIB_SERVER_USERS_LIST") # <<>>
Readable(elements) ==
  /\ elements # <<>>
  /\ \A i \in DOMAIN elements, field \in KeptFields : ElementsNamed(elements[i], field) # <<>>
FromXml(doc) ==
  IF ~HasList(doc) THEN <<>> ELSE [i \in DOMAIN UserElements(doc) |-> UserOf(UserElements(doc)[i])]

(* The list is kept back to front, and a record that is there stays.         *)
LastOfEachName(users) ==
  {users[i] : i \in {k \in DOMAIN users : \A j \in k + 1 .. Len(users) : users[j].name # users[k].name}}

-----------------------------------------------------------------------------
View(shown, of) == [shown |-> shown, of |-> of]
NoView == [none |-> View(0, 0)]

DocRest ==
  /\ docDb = {} /\ docPage = <<>> /\ docRows = <<>> /\ docBody = <<>>
  /\ docUp = TRUE /\ docEdits = 0 /\ docView = NoView

DocInit ==
  /\ docDb \in DocUsers /\ docRows = SetToSeq(docDb)
  /\ docPage = <<>> /\ docBody = <<>> /\ docUp = TRUE /\ docEdits = 0 /\ docView = NoView

PageIdle == docUp /\ docBody = <<>>
PageClosed == PageIdle /\ docPage = <<>>

(* load of the page of the users.                                           *)
DocLoads ==
  /\ PageClosed
  /\ docRows' = SetToSeq(docDb)
  /\ docPage' = Items(Answer(UsersToXml(docRows')), "EIB_SERVER_USERS_LIST", "EIB_SERVER_USER")
  /\ docView' = NoView
  /\ UNCHANGED <<docDb, docBody, docUp, docEdits>>

(* Every edit is sent at once.                                              *)
Saves(page, rows) ==
  /\ PageIdle /\ docPage # <<>> /\ docEdits < DocMaxEdits
  /\ docPage' = page /\ docRows' = rows /\ docBody' = SavedXml(page)
  /\ docEdits' = docEdits + 1
  /\ UNCHANGED <<docDb, docUp, docView>>

DocAdds ==
  \E typed \in DocTyped :
    Saves(Append(docPage, DialogUser(typed, NewRow)), Append(docRows, [typed EXCEPT !.name = Trim(@)]))

(* The dialog is filled with the fields of the page; a name or a password    *)
(* that is not typed again is kept as the page has it.                      *)
DocEdits ==
  \E i \in DOMAIN docPage, typed \in DocTyped, name, pass \in BOOLEAN :
    LET filled == [typed EXCEPT !.name = IF name THEN @ ELSE Member(docPage[i], "EIB_SERVER_USER_NAME"),
                                !.pass = IF pass THEN @ ELSE Member(docPage[i], "EIB_SERVER_USER_PASSWORD")]
        meant == [typed EXCEPT !.name = IF name THEN Trim(@) ELSE docRows[i].name,
                               !.pass = IF pass THEN @ ELSE docRows[i].pass] IN
    Saves([docPage EXCEPT ![i] = DialogUser(filled, @)], [docRows EXCEPT ![i] = meant])

DocDeletes ==
  \E i \in DOMAIN docPage :
    /\ Len(docPage) > 1 \/ DocMayEmpty
    /\ Saves(RemoveAt(docPage, i), RemoveAt(docRows, i))

(* Another program sends a list that it wrote itself; the page is closed.    *)
DocOtherSends ==
  /\ PageIdle /\ docEdits < DocMaxEdits
  /\ \E post \in DocPosts : docBody' = post.body /\ docRows' = post.means
  /\ docPage' = <<>> /\ docEdits' = docEdits + 1 /\ docView' = NoView
  /\ UNCHANGED <<docDb, docUp>>

(* ApiSetUsers.  The document has a declaration and a root before the text   *)
(* is read into it.                                                         *)
DocServerStores ==
  /\ docUp /\ docBody # <<>>
  /\ \E doc \in {ParseDocument(docBody, NewDocument)} :
       /\ docUp' = (HasList(doc) => Readable(UserElements(doc)))
       /\ docDb' = IF docUp' THEN LastOfEachName(FromXml(doc)) ELSE docDb
  /\ docBody' = <<>>
  /\ UNCHANGED <<docPage, docRows, docEdits, docView>>

(* The pages of the bus monitor and of the interface, one page at a time.    *)
DocShowsTable ==
  /\ PageClosed
  /\ \E rows \in DocTables : docView' = [table |-> View(ShownTable(Answer(BusMonToXml(rows))), rows)]
  /\ UNCHANGED <<docDb, docPage, docRows, docBody, docUp, docEdits>>

(* The page leaves out the services that the device supports.                *)
Visible(dev) ==
  [dev EXCEPT !.info = [i \in DOMAIN @ |-> [f \in DOMAIN @[i] \ {"services"} |-> @[i][f]]]]
DocShowsDevice ==
  /\ PageClosed
  /\ \E dev \in DocDevices :
       docView' = [device |-> View(ShownDevice(Answer(InterfaceToXml(dev))), Visible(dev))]
  /\ UNCHANGED <<docDb, docPage, docRows, docBody, docUp, docEdits>>

(* A document that was read is printed and read again.                       *)
DocReprints ==
  /\ PageClosed
  /\ \E post \in DocPosts :
       \E doc \in {ParseDocument(post.body, <<>>)} :
         docView' = [document |-> View(ParseDocument(PrintDocument(doc), <<>>), doc)]
  /\ UNCHANGED <<docDb, docPage, docRows, docBody, docUp, docEdits>>

DocNext ==
  DocLoads \/ DocAdds \/ DocEdits \/ DocDeletes \/ DocOtherSends \/ DocServerStores
    \/ DocShowsTable \/ DocShowsDevice \/ DocReprints

-----------------------------------------------------------------------------
(* The server survives every list that it is sent, and then has the users    *)
(* that the administrator or the program means, whatever is in their         *)
(* passwords: those that were edited, and those that only passed through.   *)
UsersKept == docUp /\ (docBody = <<>> => docDb = LastOfEachName(docRows))

(* The pages show what the bus monitor and the interface have, and a document*)
(* that is printed is read as it was.                                       *)
PagesShow == \A page \in DOMAIN docView : docView[page].shown = docView[page].of

(* No text is changed, lost or taken for a mark on any way between the        *)
(* server and the pages (WebHandler, XmlToJson, TinyXML).                    *)
DocumentsKept == UsersKept /\ PagesShow
=============================================================================
