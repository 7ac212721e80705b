CONSTANTS
    N <- MCN
    installNameOf <- MCInstallNames
    Names <- MCNames
    MaxFiles <- MCMaxFiles
SPECIFICATION Spec
PROPERTY NoUseAfterFree
