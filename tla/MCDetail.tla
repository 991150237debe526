----------------------------- MODULE MCDetail -----------------------------
(* Detail on small instances: the upload button alone, one kind of panel under *)
(* the pager, where the second recording has nothing to validate, the preview  *)
(* below the timeline, and that of a recording without a file.                 *)
EXTENDS Detail

MCSessions == {{<<"upload", "a">>},
               {<<"validation", "a">>, <<"validation", "b">>},
               {<<"timeline", "a">>, <<"video", "a">>},
               {<<"video", "b">>}}
MCPanels == UNION MCSessions
MCUnable == {<<"validation", "b">>, <<"video", "b">>}
=============================================================================
