----------------------------- MODULE XmlDocument -----------------------------
(***************************************************************************)
(* TinyXML as the server uses it, behind CXmlDocument: a tree is built,     *)
(* printed with tabs and line breaks, and read back by a parser that walks  *)
(* over the text with one pointer.  A text is a sequence of symbols: words, *)
(* blanks, and marks.  A place in it is an index; 0 is the null pointer, by *)
(* which the parser says that it has given up, and an index past the end is *)
(* the terminating zero.  Errors are only counted by the code and never     *)
(* asked for, locations neither: both are left out.                         *)
(***************************************************************************)
EXTENDS Integers, SequencesExt, TLC

XmlBlanks == {" ", "\t", "\n"}   \* "\n" is a line break of either kind
XmlMarks == {"<", ">", "/", "=", "\"", "'", "&", ";", "?", "#x", "?xml", "!--", "--",
             "![CDATA[", "]]", "!DOCTYPE"}
IsWhiteSpace(c) == c \in XmlBlanks
InName(c) == c \notin XmlBlanks \cup XmlMarks

(* Words stand for the characters that have a name, and for control ones.   *)
XmlEntity == "&" :> "amp" @@ "<" :> "lt" @@ ">" :> "gt" @@ "\"" :> "quot" @@ "'" :> "apos"
XmlCode == "\t" :> "09" @@ "\n" :> "0A"

-----------------------------------------------------------------------------
(* The tree.  The value of an element is its name.                          *)

XmlNode(kind, value, attrs, kids) ==
  [kind |-> kind, value |-> value, attrs |-> attrs, kids |-> kids]
XmlElement(name, kids) == XmlNode("element", <<name>>, <<>>, kids)
XmlText(text) == XmlNode("text", text, <<>>, <<>>)
XmlAttribute(name, value) == [name |-> name, value |-> value]

(* InsertChild and SetValue insert a copy at the end: a second value is a   *)
(* second child.                                                           *)
InsertEndChild(node, child) == [node EXCEPT !.kids = Append(@, child)]
SetValue(name, text) == XmlElement(name, <<XmlText(text)>>)

(* A new document has a declaration and an empty root.                      *)
NewDocument ==
  LET declared == <<XmlAttribute(<<"version">>, <<"1.0">>), XmlAttribute(<<"encoding">>, <<"UTF-8">>),
                    XmlAttribute(<<"standalone">>, <<"no">>)>> IN
  <<XmlNode("declaration", <<>>, declared, <<>>), XmlElement("Root", <<>>)>>

(* FirstChildElement and then NextSiblingElement, by name.                  *)
ElementsNamed(node, name) ==
  SelectSeq(node.kids, LAMBDA kid : kid.kind = "element" /\ kid.value = <<name>>)
(* RootElement: the last one, so that a parsed root hides the one that was  *)
(* made with the document.                                                 *)
RootElement(doc) == Last(SelectSeq(doc, LAMBDA node : node.value = <<"Root">>))
(* GetValue takes the first child for a text, whatever it is.               *)
GetValue(node) == IF node.kids = <<>> THEN <<>> ELSE node.kids[1].value
(* The value of an element that is looked for under a name.                 *)
ValueOf(node, name) == GetValue(ElementsNamed(node, name)[1])

-----------------------------------------------------------------------------
(* Printing.                                                               *)

(* Mutant: an ampersand is printed as it is.                                *)
EncodePlainAmpersand(text) ==
  FlattenSeq([i \in DOMAIN text |-> IF text[i] \in DOMAIN XmlEntity \ {"&"}
                                    THEN <<"&", XmlEntity[text[i]], ";">> ELSE <<text[i]>>])

EncodeChar(c) ==
  IF c \in DOMAIN XmlEntity THEN <<"&", XmlEntity[c], ";">>
  ELSE IF c \in DOMAIN XmlCode THEN <<"&", "#x", XmlCode[c], ";">> ELSE <<c>>

(* What looks like a reference to a character by its number passes through. *)
EncodeString(text) ==
  LET references == {i \in 1 .. Len(text) - 1 : text[i] = "&" /\ text[i + 1] = "#x"}
      InReference(i) == i < Len(text) /\ \E r \in references : r <= i /\ \A k \in r .. i - 1 : text[k] # ";" IN
  FlattenSeq([i \in DOMAIN text |-> IF InReference(i) THEN <<text[i]>> ELSE EncodeChar(text[i])])

Quote(text) == IF Contains(text, "\"") THEN <<"'">> ELSE <<"\"">>
PrintAttribute(attr) ==
  EncodeString(attr.name) \o <<"=">> \o Quote(attr.value) \o EncodeString(attr.value) \o Quote(attr.value)
PrintAttributes(attrs) == FlattenSeq([i \in DOMAIN attrs |-> <<" ">> \o PrintAttribute(attrs[i])])

DoIndent(depth) == [i \in 1 .. depth |-> "\t"]
DoLineBreak == <<"\n">>

PrintDeclaration(node) ==
  <<"<", "?xml", " ">>
    \o FlattenSeq([i \in DOMAIN node.attrs |->
                     node.attrs[i].name \o <<"=", "\"">> \o node.attrs[i].value \o <<"\"", " ">>])
    \o <<"?", ">">>

(* An element whose only child is a plain text stays on one line.           *)
SimpleText(node) == Len(node.kids) = 1 /\ node.kids[1].kind = "text"

RECURSIVE PrintNode(_, _)
PrintElement(node, depth) ==
  <<"<">> \o node.value \o PrintAttributes(node.attrs)
    \o IF node.kids = <<>> THEN <<" ", "/", ">">>
       ELSE <<">">>
              \o (IF SimpleText(node) THEN EncodeString(node.kids[1].value)
                  ELSE DoLineBreak
                         \o FlattenSeq([i \in DOMAIN node.kids |-> PrintNode(node.kids[i], depth + 1)])
                         \o DoIndent(depth))
              \o <<"<", "/">> \o node.value \o <<">">>

PrintNode(node, depth) ==
  DoIndent(depth)
    \o (CASE node.kind = "element" -> PrintElement(node, depth)
          [] node.kind = "text" -> EncodeString(node.value)
          [] node.kind = "cdata" -> <<"<", "![CDATA[">> \o node.value \o <<"]]", ">">>
          [] node.kind = "comment" -> <<"<", "!--">> \o node.value \o <<"--", ">">>
          [] node.kind = "unknown" -> <<"<">> \o node.value \o <<">">>
          [] node.kind = "declaration" -> PrintDeclaration(node))
    \o DoLineBreak

PrintDocument(doc) == FlattenSeq([i \in DOMAIN doc |-> PrintNode(doc[i], 0)])

-----------------------------------------------------------------------------
(* Reading.                                                                *)

Ends(s, p) == p = 0 \/ p > Len(s)
Here(s, p) == IF Ends(s, p) THEN "" ELSE s[p]
UpTo(s, p, Stops(_)) ==
  CHOOSE q \in p .. Len(s) + 1 : (q > Len(s) \/ Stops(s[q])) /\ \A r \in p .. q - 1 : ~Stops(s[r])

SkipWhiteSpace(s, p) == IF Ends(s, p) THEN 0 ELSE UpTo(s, p, LAMBDA c : ~IsWhiteSpace(c))
StringEqual(s, p, tag) == p + Len(tag) - 1 <= Len(s) /\ SubSeq(s, p, p + Len(tag) - 1) = tag
(* Where a mark begins, or the end.                                         *)
Until(s, p, tag) ==
  CHOOSE q \in p .. Len(s) + 1 : /\ q > Len(s) \/ StringEqual(s, q, tag)
                               /\ \A r \in p .. q - 1 : ~StringEqual(s, r, tag)

(* A value, and the place behind it: p = 0 when there is none.              *)
Found(p, value) == [p |-> p, value |-> value]
NotFound == Found(0, <<>>)
UpToPlace(s, p, q) == IF q = p THEN NotFound ELSE Found(q, SubSeq(s, p, q - 1))

ReadName(s, p) ==
  IF Ends(s, p) THEN NotFound ELSE UpToPlace(s, p, UpTo(s, p, LAMBDA c : ~InName(c)))

(* A reference to a character by its number, or by its name; an ampersand    *)
(* that begins neither is lost.                                            *)
CodedUpTo(s, p, end) ==
  LET coded == {c \in DOMAIN XmlCode : SubSeq(s, p + 2, end - 1) = <<XmlCode[c]>>} IN
  IF end > Len(s) \/ coded = {} THEN NotFound ELSE Found(end + 1, SetToSeq(coded))
NamedAt(s, p, named) ==
  IF named = {} THEN Found(p + 1, <<>>) ELSE Found(p + 3, SetToSeq(named))
GetEntity(s, p) ==
  IF Here(s, p + 1) = "#x" THEN CodedUpTo(s, p, Until(s, p, <<";">>))
  ELSE NamedAt(s, p, {c \in DOMAIN XmlEntity : StringEqual(s, p, <<"&", XmlEntity[c], ";">>)})

GetChar(s, p) == IF s[p] = "&" THEN GetEntity(s, p) ELSE Found(p + 1, <<s[p]>>)

(* Blanks are kept, or a run of them inside the text becomes one.           *)
RECURSIVE ReadChars(_, _, _, _, _, _)
WithChar(s, char, end, keep, blank, text) ==
  ReadChars(s, char.p, end, keep, FALSE, text \o (IF blank THEN <<" ">> ELSE <<>>) \o char.value)
ReadChars(s, p, end, keep, blank, text) ==
  IF Ends(s, p) \/ StringEqual(s, p, end) THEN Found(p, text)
  ELSE IF ~keep /\ IsWhiteSpace(s[p]) THEN ReadChars(s, p + 1, end, keep, TRUE, text)
  ELSE WithChar(s, GetChar(s, p), end, keep, blank, text)

Past(read, end) == [read EXCEPT !.p = IF @ = 0 THEN 0 ELSE @ + Len(end)]
ReadText(s, p, keep, end) ==
  Past(ReadChars(s, IF keep THEN p ELSE SkipWhiteSpace(s, p), end, keep, FALSE, <<>>), end)

(* An attribute: its name, the sign, and a value in quotes or up to a blank  *)
(* or the end of the tag.                                                  *)
Unquoted(s, p, end) ==
  IF Here(s, end) \in {"'", "\""} THEN NotFound ELSE Found(end, SubSeq(s, p, end - 1))
AttributeText(s, p) ==
  IF Ends(s, p) THEN NotFound
  ELSE IF s[p] \in {"'", "\""} THEN ReadText(s, p + 1, TRUE, <<s[p]>>)
  ELSE Unquoted(s, p, UpTo(s, p, LAMBDA c : IsWhiteSpace(c) \/ c \in {"/", ">", "'", "\""}))
AttributeNamed(name, read) == [p |-> read.p, name |-> name, value |-> read.value]
AfterSign(s, p) ==
  IF Here(s, p) # "=" THEN NotFound ELSE AttributeText(s, SkipWhiteSpace(s, p + 1))
AfterName(s, name) == AttributeNamed(name.value, AfterSign(s, SkipWhiteSpace(s, name.p)))
ParseAttribute(s, p) == AfterName(s, ReadName(s, SkipWhiteSpace(s, p)))

(* The attributes of a tag, and whether it ends itself, is to be filled, or *)
(* was given up; a second attribute of a name gives it up, too.             *)
TagRead(end, p, attrs) == [end |-> end, p |-> p, attrs |-> attrs]
RECURSIVE ReadTag(_, _, _)
WithAttribute(s, attrs, attr) ==
  IF Ends(s, attr.p) THEN TagRead("failed", 0, attrs)
  ELSE IF \E i \in DOMAIN attrs : attrs[i].name = attr.name
  THEN TagRead("failed", 0, [i \in DOMAIN attrs |-> IF attrs[i].name # attr.name THEN attrs[i]
                                                    ELSE XmlAttribute(attr.name, attr.value)])
  ELSE ReadTag(s, attr.p, Append(attrs, XmlAttribute(attr.name, attr.value)))
TagAt(s, p, attrs) ==
  IF Ends(s, p) THEN TagRead("failed", 0, attrs)
  ELSE IF s[p] = ">" THEN TagRead("open", p + 1, attrs)
  ELSE IF s[p] # "/" THEN WithAttribute(s, attrs, ParseAttribute(s, p))
  ELSE IF Here(s, p + 1) = ">" THEN TagRead("empty", p + 2, attrs)
  ELSE TagRead("failed", 0, attrs)
ReadTag(s, p, attrs) == TagAt(s, SkipWhiteSpace(s, p), attrs)

XmlBlank(text) == \A i \in DOMAIN text : IsWhiteSpace(text[i])

RECURSIVE ParseNode(_, _), ReadValue(_, _, _)

(* The children, up to the first closing tag.  A text ends before the mark   *)
(* that its reader has passed.                                              *)
WithKid(s, node, kids) == ReadValue(s, node.p, Append(kids, node.node))
WithText(s, read, kids) ==
  ReadValue(s, IF read.p = 0 THEN 0 ELSE read.p - 1,
            IF XmlBlank(read.value) THEN kids ELSE Append(kids, XmlText(read.value)))
ValueAt(s, p, kids) ==
  IF Ends(s, p) \/ StringEqual(s, p, <<"<", "/">>) THEN [p |-> p, kids |-> kids]
  ELSE IF s[p] = "<" THEN WithKid(s, ParseNode(s, p), kids)
  ELSE WithText(s, ReadText(s, p, FALSE, <<"<">>), kids)
ReadValue(s, p, kids) == ValueAt(s, SkipWhiteSpace(s, p), kids)

(* What was read before the parser gave up stays in the tree.               *)
Parsed(p, node) == [p |-> p, node |-> node]
AfterTag(s, p, closing) ==
  IF ~Ends(s, p) /\ StringEqual(s, p, closing) THEN p + Len(closing) ELSE 0
Filled(s, name, attrs, value) ==
  Parsed(AfterTag(s, value.p, <<"<", "/">> \o name \o <<">">>),
         XmlNode("element", name, attrs, value.kids))
Tagged(s, name, tag) ==
  IF tag.end = "open" THEN Filled(s, name, tag.attrs, ReadValue(s, tag.p, <<>>))
  ELSE Parsed(tag.p, XmlNode("element", name, tag.attrs, <<>>))
Named(s, name) ==
  IF Ends(s, name.p) THEN Parsed(0, XmlNode("element", name.value, <<>>, <<>>))
  ELSE Tagged(s, name.value, ReadTag(s, name.p, <<>>))
ParseElement(s, p) == Named(s, ReadName(s, SkipWhiteSpace(s, p + 1)))

(* The three attributes of a declaration that are kept.                     *)
DeclarationParts == <<"version", "encoding", "standalone">>
RECURSIVE ReadDeclared(_, _, _)
WithPart(s, part, attr, seen) == ReadDeclared(s, attr.p, [seen EXCEPT ![part] = attr.value])
DeclaredAt(s, p, seen) ==
  IF Here(s, p) \in DOMAIN seen THEN WithPart(s, s[p], ParseAttribute(s, p), seen)
  ELSE ReadDeclared(s, IF Ends(s, p) THEN 0
                       ELSE UpTo(s, p, LAMBDA c : c = ">" \/ IsWhiteSpace(c)), seen)
ReadDeclared(s, p, seen) ==
  IF Ends(s, p) THEN [p |-> 0, seen |-> seen]
  ELSE IF s[p] = ">" THEN [p |-> p + 1, seen |-> seen]
  ELSE DeclaredAt(s, SkipWhiteSpace(s, p), seen)
DeclarationOf(read) ==
  LET given == SelectSeq(DeclarationParts, LAMBDA part : read.seen[part] # <<>>) IN
  Parsed(read.p, XmlNode("declaration", <<>>,
                         [i \in DOMAIN given |-> XmlAttribute(<<given[i]>>, read.seen[given[i]])], <<>>))
ParseDeclaration(s, p) ==
  DeclarationOf(ReadDeclared(s, p + 2, [part \in ToSet(DeclarationParts) |-> <<>>]))

(* Comments, character data and tags that are nothing else keep every       *)
(* character up to their end.                                              *)
VerbatimUpTo(s, kind, from, stop, end) ==
  Parsed(stop + Len(end), XmlNode(kind, SubSeq(s, from, stop - 1), <<>>, <<>>))
ParseVerbatim(s, kind, from, end) == VerbatimUpTo(s, kind, from, Until(s, from, end), end)

(* Identify, and the Parse of the node that it makes.                       *)
ParseNode(s, p) ==
  IF StringEqual(s, p, <<"<", "?xml">>) THEN ParseDeclaration(s, p)
  ELSE IF StringEqual(s, p, <<"<", "!--">>) THEN ParseVerbatim(s, "comment", p + 2, <<"--", ">">>)
  ELSE IF StringEqual(s, p, <<"<", "![CDATA[">>) THEN ParseVerbatim(s, "cdata", p + 2, <<"]]", ">">>)
  ELSE IF p < Len(s) /\ InName(s[p + 1]) THEN ParseElement(s, p)
  ELSE ParseVerbatim(s, "unknown", p + 1, <<">">>)

(* Parse adds to what the document has; text at the top ends it.            *)
RECURSIVE ParseFrom(_, _, _)
WithNode(s, doc, node) == ParseFrom(s, node.p, Append(doc, node.node))
DocumentAt(s, p, doc) ==
  IF Here(s, p) = "<" THEN WithNode(s, doc, ParseNode(s, p)) ELSE doc
ParseFrom(s, p, doc) == DocumentAt(s, SkipWhiteSpace(s, p), doc)

ParseDocument(s, doc) == ParseFrom(s, 1, doc)
=============================================================================
