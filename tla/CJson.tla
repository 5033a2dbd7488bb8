-------------------------------- MODULE CJson --------------------------------
(***************************************************************************)
(* cJSON.c as json_handler.c needs it, and the list operations around it:  *)
(* items on a heap, with the pointers of their lists; printing into a      *)
(* given buffer; parsing.  A heap without a free node is a malloc that     *)
(* fails.  A text is a sequence of tokens: a bracket, a comma, a colon, a  *)
(* number of one digit, or a string of one character with its quotes.      *)
(* References, constant keys and formatted output are left out: the        *)
(* program uses none of them in what it sends.                             *)
(***************************************************************************)
EXTENDS Integers, Sequences, FiniteSets, SequencesExt

CONSTANTS
    Node,                   \* the heap: numbers from 1
    Key,                    \* names of members
    CJSON_NESTING_LIMIT,
    CJSON_CIRCULAR_LIMIT

ASSUME LimitAssumption ==
    /\ Node \subseteq Nat \ {0} /\ IsFiniteSet(Node)
    /\ CJSON_NESTING_LIMIT \in Nat /\ CJSON_CIRCULAR_LIMIT \in Nat

VARIABLES
    heap,                   \* the nodes, and whether one was used after it was freed
    held                    \* items that belong to the caller

vars == <<heap, held>>

NULL == 0
NoKey == "none"
FreeNode == [live |-> FALSE, type |-> "invalid", next |-> NULL, prev |-> NULL,
             child |-> NULL, string |-> NoKey, valuestring |-> NoKey]
EmptyHeap == [node |-> [n \in Node |-> FreeNode], bad |-> FALSE]

-----------------------------------------------------------------------------
(* Items and their lists *)

\* cJSON_New_Item: the node, or NULL.
Unused(h) == {n \in Node : ~h.node[n].live}
New(h) == IF Unused(h) = {} THEN NULL ELSE CHOOSE n \in Unused(h) : \A m \in Unused(h) : n <= m
Allocated(h, n, type) == [h EXCEPT !.node[n] = [FreeNode EXCEPT !.live = TRUE, !.type = type]]

\* A list from node n on, by its next pointers; a list that is longer than the heap
\* has a loop.
RECURSIVE ListFrom(_, _, _)
ListFrom(h, n, most) ==
    IF n = NULL \/ most = 0 THEN <<>> ELSE <<n>> \o ListFrom(h, h.node[n].next, most - 1)
Children(h, a) == ListFrom(h, h.node[a].child, Cardinality(Node) + 1)

\* cJSON_Delete of an item and all that follow it.
RECURSIVE Deleted(_, _)
Deleted(h, n) ==
    CASE n = NULL -> h
      [] n # NULL /\ ~h.node[n].live -> [h EXCEPT !.bad = TRUE]
      [] OTHER -> LET kids == Deleted(h, h.node[n].child)
                  IN  Deleted([kids EXCEPT !.node[n] = FreeNode], h.node[n].next)

get_array_item(h, a, which) ==
    IF which < Len(Children(h, a)) THEN Children(h, a)[which + 1] ELSE NULL
get_object_item(h, a, name) ==
    LET found == SelectSeq(Children(h, a), LAMBDA n : h.node[n].string = name)
    IN  IF found = <<>> THEN NULL ELSE found[1]

suffix_object(h, prev, item) == [h EXCEPT !.node[prev].next = item, !.node[item].prev = prev]

\* prev of the first child is the last one.
add_item_to_array(h, a, item) ==
    LET head == h.node[a].child
    IN  IF head = NULL
        THEN [h EXCEPT !.node[a].child = item, !.node[item].prev = item, !.node[item].next = NULL]
        ELSE [suffix_object(h, h.node[head].prev, item) EXCEPT !.node[head].prev = item]

\* Mutant of cJSON_DetachItemViaPointer: the new last child is not noted.
cJSON_DetachItemViaPointer_NoTail(h, parent, item) ==
    LET i == h.node[item]
        head == h.node[parent].child
        a == IF item # head THEN [h EXCEPT !.node[i.prev].next = i.next] ELSE h
        b == IF i.next # NULL THEN [a EXCEPT !.node[i.next].prev = i.prev] ELSE a
        c == IF item = head THEN [b EXCEPT !.node[parent].child = i.next] ELSE b
    IN  [c EXCEPT !.node[item].prev = NULL, !.node[item].next = NULL]

cJSON_DetachItemViaPointer(h, parent, item) ==
    LET i == h.node[item]
        head == h.node[parent].child
        a == IF item # head THEN [h EXCEPT !.node[i.prev].next = i.next] ELSE h
        b == IF i.next # NULL THEN [a EXCEPT !.node[i.next].prev = i.prev] ELSE a
        c == CASE item = head -> [b EXCEPT !.node[parent].child = i.next]
               [] item # head /\ i.next = NULL -> [b EXCEPT !.node[head].prev = i.prev]
               [] OTHER -> b
    IN  [c EXCEPT !.node[item].prev = NULL, !.node[item].next = NULL]

InsertBefore(h, array, after, item) ==
    LET prev == h.node[after].prev
        a == [h EXCEPT !.node[item].next = after, !.node[item].prev = prev, !.node[after].prev = item]
    IN  IF after = h.node[array].child THEN [a EXCEPT !.node[array].child = item]
        ELSE [a EXCEPT !.node[prev].next = item]

cJSON_ReplaceItemViaPointer(h, parent, item, new) ==
    LET i == h.node[item]
        head == h.node[parent].child
        a == [h EXCEPT !.node[new].next = i.next, !.node[new].prev = i.prev]
        b == IF i.next # NULL THEN [a EXCEPT !.node[i.next].prev = new] ELSE a
        c == IF item = head
             THEN [b EXCEPT !.node[new].prev = IF i.prev = head THEN new ELSE @,
                            !.node[parent].child = new]
             ELSE LET d == [b EXCEPT !.node[i.prev].next = new]
                  IN  IF i.next = NULL THEN [d EXCEPT !.node[head].prev = new] ELSE d
    IN  Deleted([c EXCEPT !.node[item].next = NULL, !.node[item].prev = NULL], item)

-----------------------------------------------------------------------------
(* Printing: p is what has been printed, its length in characters and the  *)
(* length of the buffer                                                    *)

Width(token) == IF token \in Key THEN 3 ELSE 1

\* Mutant of ensure: no room for the final NUL.
ensure_NoNul(p, needed) == p.offset + needed <= p.length + 1

ensure(p, needed) == p.offset < p.length /\ p.offset + needed + 1 <= p.length

\* A token is put where needed characters are asked for; written is the highest
\* position that has been written, the NUL after the token included.
Put(p, token, needed) ==
    IF p.ok /\ ensure(p, needed)
    THEN [p EXCEPT !.text = Append(@, token), !.offset = @ + Width(token),
                   !.written = p.offset + Width(token)]
    ELSE [p EXCEPT !.ok = FALSE]
Ask(p, needed) == [p EXCEPT !.ok = @ /\ ensure(p, needed)]

\* Mutant of Separated: a comma after every member.
Separated_Always(p, next) == Put(p, ",", 2)

Separated(p, next) == IF next = NULL THEN p ELSE Put(p, ",", 2)

RECURSIVE print_value(_, _, _)
RECURSIVE PrintMembers(_, _, _, _)
print_value(h, n, p) ==
    CASE h.node[n].type = "number" -> Put(p, "1", 2)
      [] h.node[n].type = "string" -> Put(p, h.node[n].valuestring, 4)
      [] h.node[n].type = "array" ->
           Put(PrintMembers(h, h.node[n].child, Put(p, "[", 1), FALSE), "]", 2)
      [] h.node[n].type = "object" ->
           Put(PrintMembers(h, h.node[n].child, Put(p, "{", 2), TRUE), "}", 2)
PrintMembers(h, n, p, object) ==
    IF n = NULL \/ ~p.ok THEN p
    ELSE LET next == h.node[n].next
             key == IF object THEN Put(Put(p, h.node[n].string, 4), ":", 1) ELSE p
             value == print_value(h, n, key)
             room == IF object /\ next = NULL THEN Ask(value, 1) ELSE value
         IN  PrintMembers(h, next, Separated(room, next), object)

cJSON_PrintPreallocated(h, n, length) ==
    print_value(h, n, [ok |-> TRUE, text |-> <<>>, offset |-> 0, written |-> 0, length |-> length])

-----------------------------------------------------------------------------
(* Parsing: s is the heap, the position in text t, and whether all is well *)

Close(type) == IF type = "array" THEN "]" ELSE "}"
At(t, i) == IF i <= Len(t) THEN t[i] ELSE "end"

\* The list is complete: head's prev is the last item.
Linked(h, n, type, head, last) ==
    LET a == [h EXCEPT !.node[n].type = type, !.node[n].child = head]
    IN  IF head = NULL THEN a ELSE [a EXCEPT !.node[head].prev = last]

\* Mutant of Damaged: a list that failed keeps its items.
Damaged_Kept(s, head) == [s EXCEPT !.ok = FALSE]

\* Where parse_array and parse_object go on failure.
Damaged(s, head) == [s EXCEPT !.ok = FALSE, !.h = Deleted(@, head)]

RECURSIVE parse_value(_, _, _, _)
RECURSIVE ParseMembers(_, _, _, _, _, _, _)
parse_value(s, n, t, depth) ==
    LET token == At(t, s.i)
        type == IF token = "{" THEN "object" ELSE "array"
    IN  CASE token = "1" -> [s EXCEPT !.i = @ + 1, !.h.node[n].type = "number"]
          [] token \in Key -> [s EXCEPT !.i = @ + 1, !.h.node[n].type = "string",
                                        !.h.node[n].valuestring = token]
          [] token \in {"[", "{"} /\ depth >= CJSON_NESTING_LIMIT -> [s EXCEPT !.ok = FALSE]
          [] token \in {"[", "{"} /\ depth < CJSON_NESTING_LIMIT ->
               IF At(t, s.i + 1) = Close(type)
               THEN [s EXCEPT !.i = @ + 2, !.h = Linked(@, n, type, NULL, NULL)]
               ELSE ParseMembers([s EXCEPT !.i = @ + 1], n, t, type, depth + 1, NULL, NULL)
          [] OTHER -> [s EXCEPT !.ok = FALSE]

\* One more member of item n, after head .. last: it is linked to the list before
\* its name and its value are parsed.
ParseMembers(s, n, t, type, depth, head, last) ==
    LET new == New(s.h)
        first == IF head = NULL THEN new ELSE head
        fresh == Allocated(s.h, new, "invalid")
        joined == IF head = NULL THEN fresh ELSE suffix_object(fresh, last, new)
        named == type = "array" \/ (At(t, s.i) \in Key /\ At(t, s.i + 1) = ":")
        start == IF type = "array" THEN [s EXCEPT !.h = joined]
                 ELSE [s EXCEPT !.h = [joined EXCEPT !.node[new].string = At(t, s.i)], !.i = @ + 2]
        value == parse_value(start, new, t, depth)
    IN  CASE new = NULL -> Damaged(s, head)
          [] new # NULL /\ ~named -> Damaged([s EXCEPT !.h = joined], first)
          [] new # NULL /\ named /\ ~value.ok -> Damaged(value, first)
          [] new # NULL /\ named /\ value.ok ->
               CASE At(t, value.i) = "," ->
                      ParseMembers([value EXCEPT !.i = @ + 1], n, t, type, depth, first, new)
                 [] At(t, value.i) = Close(type) ->
                      [value EXCEPT !.i = @ + 1, !.h = Linked(@, n, type, first, new)]
                 [] OTHER -> Damaged(value, first)

\* cJSON_Parse: what follows the value is ignored.  The root, or NULL.
cJSON_Parse(h, t) ==
    LET root == New(h)
        s == parse_value([h |-> Allocated(h, root, "invalid"), i |-> 1, ok |-> TRUE], root, t, 0)
    IN  CASE root = NULL -> [h |-> h, root |-> NULL]
          [] root # NULL /\ s.ok -> [h |-> s.h, root |-> root]
          [] root # NULL /\ ~s.ok -> [h |-> Deleted(s.h, root), root |-> NULL]

-----------------------------------------------------------------------------
\* cJSON_Duplicate_rec with all children: the copy, or NULL.
RECURSIVE Duplicated(_, _, _)
RECURSIVE DuplicateList(_, _, _, _, _)
Duplicated(h, n, depth) ==
    LET new == New(h)
        copy == [h EXCEPT !.node[new] = [h.node[n] EXCEPT !.next = NULL, !.prev = NULL, !.child = NULL]]
    IN  IF new = NULL THEN [h |-> h, root |-> NULL]
        ELSE DuplicateList(copy, new, NULL, h.node[n].child, depth)
DuplicateList(h, new, last, child, depth) ==
    LET r == Duplicated(h, child, depth + 1)
        joined == IF last = NULL THEN [r.h EXCEPT !.node[new].child = r.root]
                  ELSE suffix_object(r.h, last, r.root)
    IN  CASE child = NULL -> [h |-> Linked(h, new, h.node[new].type, h.node[new].child, last),
                              root |-> new]
          [] child # NULL /\ (depth >= CJSON_CIRCULAR_LIMIT \/ r.root = NULL) ->
               [h |-> Deleted(IF depth >= CJSON_CIRCULAR_LIMIT THEN h ELSE r.h, new), root |-> NULL]
          [] OTHER -> DuplicateList(joined, new, r.root, h.node[child].next, depth)

-----------------------------------------------------------------------------
(* Calls *)

Container(type) == {n \in Node : heap.node[n].live /\ heap.node[n].type = type}
RECURSIVE Below(_, _)
Below(h, n) == {n} \cup UNION {Below(h, m) : m \in Range(Children(h, n))}
\* An item is put where the caller may put it: it is held, and the list is not in it.
Fits(a, item) == item \in held /\ a \notin Below(heap, item)

\* cJSON_CreateNumber, cJSON_CreateArray, cJSON_CreateObject
Create(type) ==
    /\ New(heap) # NULL
    /\ heap' = Allocated(heap, New(heap), type)
    /\ held' = held \cup {New(heap)}

\* Without memory for the characters the item is freed again.
cJSON_CreateString(string) ==
    /\ New(heap) # NULL
    /\ heap' = [Allocated(heap, New(heap), "string") EXCEPT !.node[New(heap)].valuestring = string]
    /\ held' = held \cup {New(heap)}

cJSON_AddItemToArray(a, item) ==
    /\ a \in Container("array") /\ Fits(a, item)
    /\ heap' = add_item_to_array(heap, a, item)
    /\ held' = held \ {item}

\* Without memory for the key nothing happens: the item stays with the caller.
cJSON_AddItemToObject(a, key, item) ==
    /\ a \in Container("object") /\ Fits(a, item)
    /\ heap' = add_item_to_array([heap EXCEPT !.node[item].string = key], a, item)
    /\ held' = held \ {item}

cJSON_InsertItemInArray(a, which, item) ==
    LET after == get_array_item(heap, a, which)
    IN  /\ a \in Container("array") /\ Fits(a, item)
        /\ heap' = IF after = NULL THEN add_item_to_array(heap, a, item)
                   ELSE InsertBefore(heap, a, after, item)
        /\ held' = held \ {item}

cJSON_DetachItemFromArray(a, which) ==
    LET item == get_array_item(heap, a, which)
    IN  /\ a \in Container("array") /\ item # NULL
        /\ heap' = cJSON_DetachItemViaPointer(heap, a, item)
        /\ held' = held \cup {item}

cJSON_DetachItemFromObject(a, key) ==
    LET item == get_object_item(heap, a, key)
    IN  /\ a \in Container("object") /\ item # NULL
        /\ heap' = cJSON_DetachItemViaPointer(heap, a, item)
        /\ held' = held \cup {item}

cJSON_ReplaceItemInArray(a, which, new) ==
    LET item == get_array_item(heap, a, which)
    IN  /\ a \in Container("array") /\ Fits(a, new) /\ item # NULL
        /\ heap' = cJSON_ReplaceItemViaPointer(heap, a, item, new)
        /\ held' = held \ {new}

\* The replacement gets its name first, and keeps it when there is no such member;
\* without memory for it, it is left without a name.
replace_item_in_object(a, key, new) ==
    LET item == get_object_item(heap, a, key)
        named == [heap EXCEPT !.node[new].string = key]
    IN  /\ a \in Container("object") /\ Fits(a, new)
        /\ \/ /\ item # NULL
              /\ heap' = cJSON_ReplaceItemViaPointer(named, a, item, new)
              /\ held' = held \ {new}
           \/ /\ item = NULL
              /\ heap' = named
              /\ UNCHANGED held
           \/ /\ heap' = [heap EXCEPT !.node[new].string = NoKey]
              /\ UNCHANGED held

cJSON_Delete(item) ==
    /\ item \in held
    /\ heap' = Deleted(heap, item)
    /\ held' = held \ {item}

cJSON_Duplicate(n) ==
    LET r == Duplicated(heap, n, 0)
    IN  /\ heap.node[n].live
        /\ heap' = r.h
        /\ held' = held \cup ({r.root} \ {NULL})

\* The text of an item arrives whole, cut short, or with a token missing.
TextOf(h, n) == cJSON_PrintPreallocated(h, n, 100).text
Arrived(t) == {SubSeq(t, 1, i) : i \in 0 .. Len(t)} \cup {RemoveAt(t, i) : i \in 1 .. Len(t)}
Receive(n) ==
    /\ n \in held
    /\ \E t \in Arrived(TextOf(heap, n)) :
        LET r == cJSON_Parse(heap, t)
        IN  heap' = r.h /\ held' = held \cup ({r.root} \ {NULL})

Init == heap = EmptyHeap /\ held = {}

Index == 0 .. Cardinality(Node) - 1
Next ==
    \/ \E type \in {"number", "array", "object"} : Create(type)
    \/ \E string \in Key : cJSON_CreateString(string)
    \/ \E a, item \in Node :
        \/ cJSON_AddItemToArray(a, item)
        \/ \E key \in Key : cJSON_AddItemToObject(a, key, item) \/ replace_item_in_object(a, key, item)
        \/ \E which \in Index : \/ cJSON_InsertItemInArray(a, which, item)
                               \/ cJSON_ReplaceItemInArray(a, which, item)
    \/ \E a \in Node, which \in Index : cJSON_DetachItemFromArray(a, which)
    \/ \E a \in Node, key \in Key : cJSON_DetachItemFromObject(a, key)
    \/ \E n \in Node : cJSON_Delete(n) \/ cJSON_Duplicate(n) \/ Receive(n)

Spec == Init /\ [][Next]_vars

-----------------------------------------------------------------------------
Live == {n \in Node : heap.node[n].live}

\* Every list is sound, whatever calls made it: its items are live, each one's prev
\* is the item before it, and the first one's prev is the last item, which is where
\* the next one will be appended.
ListsIntact ==
    \A a \in Live :
        LET kids == Children(heap, a)
        IN  /\ Range(kids) \subseteq Live
            /\ \A i \in 1 .. Len(kids) :
                heap.node[kids[i]].prev = kids[IF i = 1 THEN Len(kids) ELSE i - 1]

\* Every item belongs to the caller or to one list, and never to two: nothing leaks
\* and nothing is freed twice, also when memory runs out in the middle of a copy or
\* of a parse, or when a text is damaged.
OneOwner ==
    /\ ~heap.bad
    /\ held \subseteq Live
    /\ \A n \in Live :
        LET places == {p \in Live \X (1 .. Cardinality(Node) + 1) :
                        p[2] <= Len(Children(heap, p[1])) /\ Children(heap, p[1])[p[2]] = n}
        IN  Cardinality(places) + Cardinality({n} \cap held) = 1

\* The json that an item stands for.
RECURSIVE Value(_, _)
Value(h, n) ==
    LET kids == Children(h, n)
        object == h.node[n].type = "object"
    IN  <<h.node[n].type, h.node[n].valuestring,
          [i \in 1 .. Len(kids) |->
             <<IF object THEN h.node[kids[i]].string ELSE NoKey, Value(h, kids[i])>>]>>
RECURSIVE Depth(_, _)
Depth(h, n) ==
    IF h.node[n].type \notin {"array", "object"} THEN 0
    ELSE 1 + CHOOSE d \in {0} \cup {Depth(h, m) : m \in Range(Children(h, n))} :
                \A m \in Range(Children(h, n)) : Depth(h, m) <= d

\* What one device prints the other parses to the same json, if it is not nested
\* too deeply: the mirror survives the way through json_buffer.
RoundTrip ==
    \A n \in held :
        LET r == cJSON_Parse(EmptyHeap, TextOf(heap, n))
        IN  IF Depth(heap, n) > CJSON_NESTING_LIMIT THEN r.root = NULL
            ELSE r.root # NULL /\ Value(r.h, r.root) = Value(heap, n)

\* Printing never writes past the buffer it was given, and a buffer with five
\* characters more than the text is always enough (cJSON.h: "to be safe allocate 5
\* bytes more than you actually need").
PrintInBounds ==
    \A n \in held :
        LET size == cJSON_PrintPreallocated(heap, n, 100).offset
        IN  \A length \in 0 .. size + 5 :
              LET p == cJSON_PrintPreallocated(heap, n, length)
              IN  /\ p.text # <<>> => p.written < length
                  /\ length = size + 5 => p.ok
=============================================================================
