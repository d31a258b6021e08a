------------------------- MODULE SequentialTreeJson -------------------------
(***************************************************************************)
(* wiki_seq_tree_to_json of c/wikipedia/sequential_tree_json_outputter.cpp *)
(* for the tree of SequentialParser.  A value of JSON is a node: its type, *)
(* the one string most of them have, the other one of a link or cell, and  *)
(* the values inside it.  A null is the node Null.                         *)
(***************************************************************************)
EXTENDS SequentialParser

Node(type, text, other, kids) ==
  [type |-> type, text |-> text, other |-> other, kids |-> kids]
Null == Node("null", <<>>, <<>>, <<>>)

(* One section is written as it is, several as an array, none as null.     *)
Value(kids) ==
  CASE Len(kids) = 0 -> Null
    [] Len(kids) = 1 -> kids[1]
    [] OTHER -> Node("array", <<>>, <<>>, kids)

BuildText(sec) == Node("text", sec.text, <<>>, <<>>)
BuildRaw(sec) == Node(sec.type, sec.text, <<>>, <<>>)
BuildInternalLink(sec) == Node("internal_link", sec.text, sec.alias, <<>>)
BuildRedirect(link) == Node("redirect", link.text, <<>>, <<>>)
BuildExternalLink(sec, kids) == Node("external_link", sec.text, <<>>, kids)
BuildKeyValue(sec, kids) == Node("key_value", sec.text, <<>>, <<Value(kids)>>)
BuildTemplate(sec, kids) == Node("template", sec.text, <<>>, kids)
BuildImage(sec, kids) == Node("image", sec.text, <<>>, kids)
BuildRef(kids) == Node("ref", <<>>, <<>>, kids)
BuildHeading(kids) == Node("heading", <<>>, <<>>, <<Value(kids)>>)
BuildCategory(sec) == Node("category", sec.text, <<>>, <<>>)
BuildLanguageLink(sec) == Node("language_link", sec.text, sec.alias, <<>>)
BuildTable(sec, caption, rows) == Node("table", sec.text, <<>>, caption \o rows)
BuildTableCaption(sec, kids) == Node("table_caption", sec.text, <<>>, kids)
BuildTableRow(sec, cells) == Node("row", sec.text, <<>>, cells)
BuildTableCell(sec, kids) == Node("cell", sec.text, sec.alias, kids)
BuildError == Node("error", <<error>>, <<>>, <<>>)

BuildSection(h, sec, build) ==
  LET node == h.node[sec]
      kids == [i \in DOMAIN h.list[sec] |-> build[h.list[sec][i]]]
  IN  CASE node.type = "text" -> BuildText(node)
        [] node.type \in {"pre", "math", "source", "gallery"} -> BuildRaw(node)
        [] node.type = "internal_link" -> BuildInternalLink(node)
        [] node.type = "redirect" -> BuildRedirect(h.node[node.held])
        [] node.type = "external_link" -> BuildExternalLink(node, kids)
        [] node.type = "key_value" -> BuildKeyValue(node, kids)
        [] node.type = "template" -> BuildTemplate(node, kids)
        [] node.type = "image" -> BuildImage(node, kids)
        [] node.type = "ref" -> BuildRef(kids)
        [] node.type = "heading" -> BuildHeading(kids)
        [] node.type = "category" -> BuildCategory(node)
        [] node.type = "language_link" -> BuildLanguageLink(node)
        [] node.type = "table" ->
             BuildTable(node, IF node.held = None THEN <<>> ELSE <<build[node.held]>>, kids)
        [] node.type = "table_caption" -> BuildTableCaption(node, kids)
        [] node.type = "row" -> BuildTableRow(node, kids)
        [] node.type = "cell" -> BuildTableCell(node, kids)
        [] OTHER -> Null

TreeToJson ==
  LET h == heap
      build[sec \in DOMAIN h.node] == BuildSection(h, sec, build)
  IN  IF error # "" THEN <<BuildError>>
      ELSE [i \in DOMAIN h.list[1] |-> build[h.list[1][i]]]
=============================================================================
