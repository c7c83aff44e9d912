SPECIFICATION NotifierSpec
CONSTANTS
    Torrent = {0, 1}
    Download = {0}
INVARIANT NoStartupSpam
