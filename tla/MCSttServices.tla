---------------------------- MODULE MCSttServices ----------------------------
(* Up to three services of two Wyoming servers and a cloud service.  The    *)
(* user may ask for any main, for chains in both orders, and for ids that   *)
(* do not exist, are given twice, or are the main itself.                   *)
EXTENDS SttServices

CONSTANTS u1, u2, cloud

Setting(m, f, s) == [main |-> m, fallbacks |-> f, shadows |-> s]

MCRequested ==
  {Setting(m, f, s) : m \in Ids \union {None},
                      f \in {<<>>, <<1, 2>>, <<3, 1, 3>>}, s \in {<<>>, <<2>>}}

\* The flat settings: Wyoming or a cloud main or none; a cloud main may have
\* the local server as its fallback.
MCLegacies ==
  {l \in [main : {u1, cloud, NoService}, fallback : {u1, NoService},
          shadow : {u1, u2, cloud, NoService}, rescues : BOOLEAN] :
     l.fallback # NoService => l.main = cloud}

\* Backups this program writes: nothing set up, one service, and two of which
\* one is fallback and shadow.
MCArchives ==
  {[rows |-> <<NoService, NoService, NoService>>, roles |-> Setting(None, <<>>, <<>>)],
   [rows |-> <<u1, NoService, NoService>>, roles |-> Setting(1, <<>>, <<>>)],
   [rows |-> <<NoService, cloud, u2>>, roles |-> Setting(3, <<2>>, <<2>>)]}
=============================================================================
