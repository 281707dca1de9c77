------------------------------ MODULE MCNaming ------------------------------
(***************************************************************************)
(* Naming on every template of up to three segments, with arguments whose  *)
(* names begin alike or are spelled in both of the client's ways, and on   *)
(* names that are no function's.                                           *)
(***************************************************************************)
EXTENDS Naming

Arg(name, words) == [name |-> name, words |-> words]
Product == Arg("product", <<"product">>)
ProductId == Arg("product-id", <<"product", "id">>)
ProductIdCamel == Arg("productId", <<"product", "id">>)
Body == Arg("id", <<"id">>)

\* The arguments of a function are its path's and sometimes a body's.
ArgLists ==
  {<<>>, <<Product>>, <<ProductId>>, <<Body>>, <<Product, ProductId>>, <<ProductId, Product>>,
   <<ProductId, Body>>, <<Body, Product>>, <<ProductIdCamel, ProductId>>}

LiteralWords == {<<"all">>, <<"id">>, <<"product", "id">>, <<"by", "id">>, <<"stand", "by">>}

Pieces(args) ==
  {Literal(w) : w \in LiteralWords} \cup {Param(args[k]) : k \in DOMAIN args}

Named(owner, verb, version, template, args) ==
  [name |-> <<verb>> \o owner \o <<version>> \o Spell(template), args |-> args,
   template |-> template]

Mounted ==
  UNION {{Named(<<"registry">>, "post", "v1", t, args) : t \in BoundedSeq(Pieces(args), 3)} :
           args \in ArgLists}

\* A verb that is a namespace too, a version inside the rest, names that are
\* not REST functions, and a version too large to be one.
Bare(name) == [name |-> name, args |-> <<>>, template |-> <<>>]
Odd ==
  {Named(<<"patch">>, "post", "v1", <<Literal(<<"all">>)>>, <<>>),
   Named(<<"patch", "proxy">>, "patch", "v4", <<Literal(<<"all", "v1", "id">>)>>, <<>>),
   Bare(<<"help">>), Bare(<<"get", "region", "locale">>), Bare(<<"get", "v1", "all">>),
   Bare(<<"patch", "v1">>), Bare(<<"get", "patch", "v4294967296", "all", "v1">>),
   Bare(<<"get", "v1", "proxy", "v1">>)}

\* Words and values are strings.
AllSymbols == STRING

SmallFunctions == Mounted \cup Odd

\* Plain, cutting, escaped already, a mixture, a brace alone, and the name of a
\* parameter in braces.
SmallValues ==
  {<<"live">>, <<"/">>, <<"%", "2F">>, <<"a", "?", "a">>, <<"{", "a">>,
   <<"a", "{", "product", "id", "}">>}
=============================================================================
