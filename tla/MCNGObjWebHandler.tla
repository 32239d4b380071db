------------------------- MODULE MCNGObjWebHandler -------------------------
(* Small instances of NGObjWebHandler: locations with and without a name    *)
(* server and an application port, and answers of three shapes.             *)
EXTENDS NGObjWebHandler

CONSTANTS unixPort, inetPort

MCSections == {create_dir_config, set_sns_port(create_dir_config, unixPort),
               set_app_port(create_dir_config, inetPort)}

MCLocations == {merge_dir_configs(base, add) : base \in MCSections, add \in MCSections}

MCChar == {SPACE, CR, LF, COLON, "HTTP/1.0", "Request", "failed", "content-length",
           "0", "1", "2", "3", "200", "204", "302", "n", "x", "y", "b1", "b2"}

MCNumerals == <<"0", "1", "2", "3">>

header(name, value) == [name |-> name, value |-> value]

\* An empty answer, and one with a body and a header; a redirect whose header
\* value is too long for the scanner.
MCResponses ==
    {[status |-> "204", headers |-> << >>, body |-> << >>],
     [status |-> "200", headers |-> <<header(<<"n">>, <<"x", SPACE, "y">>)>>,
      body |-> <<"b1", "b2">>],
     [status |-> "302",
      headers |-> <<header(<<"n">>, <<"x", "x", "x", "x">>)>>, body |-> <<"b1">>]}
=============================================================================
