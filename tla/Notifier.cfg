SPECIFICATION NotifierFairSpec
CONSTANTS
    Torrent = {0, 1}
    Download = {0}
INVARIANT ToldOnce
PROPERTY FinishedTold
